---- MODULE Spec2Model ----
(***************************************************************************)
(* A model of the dynamic code generation + sandboxed execution pipeline   *)
(* of src/dynamic_agents/dynamic_with_gradio.py (generate_and_run) and of  *)
(* its command-line predecessor src/dynamic_agents/dynamic_agent.py; of    *)
(* overlapping calls of run_generated_adk (SpecThreads); of the chat UI of *)
(* src/simple_standalone_adk/gradio_app.py (SpecChat); and of              *)
(* render_scenes_with_reference of src/story_with_adk/tools.py             *)
(* (SpecRender).                                                           *)
(*                                                                         *)
(* Texts.  A Python string is modelled as a sequence of tokens, each token *)
(* a fixed piece of text (a word, a punctuation mark, " ", "\n", a fence). *)
(* The string is the concatenation of its tokens, so concatenation is \o,  *)
(* (s in code) is "contiguous subsequence", str.startswith is "prefix",    *)
(* and a regular expression is an operator on token sequences.             *)
(***************************************************************************)
EXTENDS Integers, Sequences, FiniteSets, TLC

(***************************************************************************)
(* Bounds of the model.                                                    *)
(***************************************************************************)
\* largest value of the "Max retries" input that is explored
MaxRetries == 3
\* largest number of consecutive failures the provider delivers
MaxFailures == 3
\* largest number of requests one process of the Gradio app serves
MaxRequests == 2
\* largest number of calls of run_generated_adk that may overlap in one process
MaxCalls == 2
\* largest number of sessions started in the chat UI
MaxSessions == 2
\* largest number of entries of scenes_json
MaxScenes == 3

(***************************************************************************)
(* Strings as token sequences.                                             *)
(***************************************************************************)
SP == " "
NL == "\n"
CRLF == "\r\n"
IND == "    "
\* the code fence, three backquotes
FENCE == "<fence>"

\* \s
IsSpace(t) == t \in {SP, NL, CRLF, IND}

Max(a, b) == IF a >= b THEN a ELSE b

Min(a, b) == IF a <= b THEN a ELSE b

IsPrefix(p, s) == Len(p) <= Len(s) /\ SubSeq(s, 1, Len(p)) = p

IsSuffix(p, s) == Len(p) <= Len(s) /\ SubSeq(s, Len(s) - Len(p) + 1, Len(s)) = p

\* s[i..] as a sequence
From(s, i) == SubSeq(s, i, Len(s))

\* `p in s`
Contains(p, s) ==
    LET \* p occurs in s at position i
        OccursAt(i) == i >= 1 /\ i + Len(p) - 1 <= Len(s) /\ SubSeq(s, i, i + Len(p) - 1) = p
    IN  \E k \in 1..(Len(s) + 1) : OccursAt(k)

\* the words ws (each a token sequence) separated by single spaces: "a b c"
RECURSIVE Words(_)
Words(ws) ==
    IF Len(ws) = 0 THEN << >>
    ELSE IF Len(ws) = 1 THEN ws[1]
    ELSE ws[1] \o << SP >> \o Words(Tail(ws))

\* s[i], or "" past the ends
At(s, i) == IF i \in 1..Len(s) THEN s[i] ELSE ""

\* "\n".join(lines)
RECURSIVE Join(_)
Join(lines) ==
    IF Len(lines) = 0 THEN << >>
    ELSE IF Len(lines) = 1 THEN lines[1]
    ELSE lines[1] \o << NL >> \o Join(Tail(lines))

\* the least element of a non-empty set of integers
Least(S) == CHOOSE j \in S : \A k \in S : j <= k

\* the greatest element of a non-empty set of integers
Greatest(S) == CHOOSE j \in S : \A k \in S : j >= k

\* str.splitlines(): no empty last line after a final line break
RECURSIVE SplitLines(_)
SplitLines(s) ==
    LET \* index of the first line break at or after i, or Len(s) + 1
        NextBreak(s1, i) ==
            LET B == { j \in i..Len(s1) : s1[j] \in {NL, CRLF} }
            IN  IF B = {} THEN Len(s1) + 1 ELSE Least(B)
    IN  IF Len(s) = 0 THEN << >>
        ELSE LET b == NextBreak(s, 1)
             IN  << SubSeq(s, 1, b - 1) >> \o SplitLines(From(s, b + 1))

\* index of the first token at or after i that is not whitespace (Len(s) + 1 if
\* none): where \s* started at i ends
SkipSpace(s, i) ==
    LET N == { j \in Max(i, 1)..Len(s) : ~IsSpace(s[j]) }
    IN  IF i > Len(s) THEN i ELSE IF N = {} THEN Len(s) + 1 ELSE Least(N)

\* str.rstrip()
RStrip(s) ==
    LET N == { j \in 1..Len(s) : ~IsSpace(s[j]) }
    IN  IF N = {} THEN << >> ELSE SubSeq(s, 1, Greatest(N))

\* str.strip()
Strip(s) ==
    LET \* str.lstrip()
        LStrip(t) == From(t, SkipSpace(t, 1))
    IN  LStrip(RStrip(s))

\* the number of characters of the whitespace tokens s[1..n]
RECURSIVE WidthSum(_, _)
WidthSum(s, n) ==
    LET \* the characters a token stands for, counted (len)
        Width(t) == IF t = IND THEN 4 ELSE IF t = CRLF THEN 2 ELSE 1
    IN  IF n = 0 THEN 0 ELSE Width(s[n]) + WidthSum(s, n - 1)

\* len(line) - len(line.lstrip())
IndentOf(line) == WidthSum(line, SkipSpace(line, 1) - 1)

(***************************************************************************)
(* 1) LLM output -> source text: code fence and contract substrings.       *)
(***************************************************************************)
\* the language tags of CODE_FENCE, matched with re.IGNORECASE
IsPythonTag(t) == t \in {"python", "Python"}

IsPyTag(t) == t \in {"py", "Py"}

\* index of the first code fence at or after i, or 0
NextFence(s, i) ==
    LET F == { j \in Max(i, 1)..Len(s) : s[j] = FENCE }
    IN  IF F = {} THEN 0 ELSE Least(F)

\* the same pattern with a greedy group, (.*) for (.*?): the match runs to the
\* last fence of the text
GreedyFenceSearch(text) ==
    LET i == NextFence(text, 1)
        t == IF i > 0 /\ i < Len(text) /\ (IsPythonTag(text[i + 1]) \/ IsPyTag(text[i + 1]))
             THEN i + 2 ELSE i + 1
        L == { k \in t..Len(text) : text[k] = FENCE }
    IN  IF i > 0 /\ L # {}
        THEN [found |-> TRUE, group1 |-> SubSeq(text, SkipSpace(text, t), Greatest(L) - 1)]
        ELSE [found |-> FALSE, group1 |-> << >>]

\* dynamic_with_gradio.py: re.compile(r"[fence](?:python|py)?\s*(.*?)[fence]",
\* DOTALL | IGNORECASE).search(text): the match as [found, group1]
CODE_FENCE_search(text) ==
    LET i == NextFence(text, 1)
        t == IF i > 0 /\ i < Len(text) /\ (IsPythonTag(text[i + 1]) \/ IsPyTag(text[i + 1]))
             THEN i + 2 ELSE i + 1
        j == SkipSpace(text, t)
        k == IF i > 0 THEN NextFence(text, j) ELSE 0
    IN  IF i > 0 /\ k > 0
        THEN [found |-> TRUE, group1 |-> SubSeq(text, j, k - 1)]
        ELSE [found |-> FALSE, group1 |-> << >>]

\* dynamic_agent.py: re.compile(r"[fence]python\s*(.*?)[fence]",
\* DOTALL | IGNORECASE).search(text)
CODE_FENCE_agent_search(text) ==
    LET \* index of the first fence at or after i that is directly followed by the
        \* tag python and has a fence somewhere after it, or 0
        NextPythonFence(s, i1) ==
            LET F == { f \in Max(i1, 1)..Len(s) :
                         s[f] = FENCE /\ IsPythonTag(At(s, f + 1)) /\ NextFence(s, f + 2) > 0 }
            IN  IF F = {} THEN 0 ELSE Least(F)
        i == NextPythonFence(text, 1)
        j == SkipSpace(text, i + 2)
        k == NextFence(text, j)
    IN  IF i > 0
        THEN [found |-> TRUE, group1 |-> SubSeq(text, j, k - 1)]
        ELSE [found |-> FALSE, group1 |-> << >>]

\* \w+ : a token made of word characters only
IsWordTok(t) ==
    LET \* tokens that are not words: punctuation, operators and quoted literals
        NonWordToks ==
            { "(", ")", ":", ".", ",", "=", "==", "#", "\"", FENCE,
              "'main'", "\"main\"", "'__main__'", "\"__main__\"", "'__await__'",
              "'hi'", "'late'", "'ok'", "' ok '", "'dyn_adk'", "'user-1'", "'sess-1'", "" }
    IN  ~IsSpace(t) /\ t \notin NonWordToks

RECURSIVE SkipTag(_, _)
SkipTag(s, i) ==
    LET \* [a-zA-Z0-9_-]* : the tokens a fence's language tag can be made of
        IsTagTok(t) == IsWordTok(t)
    IN  IF i <= Len(s) /\ IsTagTok(s[i]) THEN SkipTag(s, i + 1) ELSE i

\* index just after the last line break in the whitespace run starting at i, or 0
\* when that run holds no line break (or i = 0): the greedy match of \s*\n
RECURSIVE LastBreakInRun(_, _, _)
LastBreakInRun(s, i, best) ==
    IF i >= 1 /\ i <= Len(s) /\ IsSpace(s[i])
    THEN LastBreakInRun(s, i + 1, IF s[i] \in {NL, CRLF} THEN i + 1 ELSE best)
    ELSE best

\* re.sub(r'^\s*[fence][a-zA-Z0-9_-]*\s*\n', '', code)
StripOpeningFence(code) ==
    LET \* index after the opening fence and its tag at the start of code, or 0
        OpeningFenceEnd(code1) ==
            IF At(code1, SkipSpace(code1, 1)) = FENCE THEN SkipTag(code1, SkipSpace(code1, 1) + 1) ELSE 0
    IN  IF LastBreakInRun(code, OpeningFenceEnd(code), 0) > 0
        THEN From(code, LastBreakInRun(code, OpeningFenceEnd(code), 0))
        ELSE code

\* re.sub(r'\n[fence][\s\t]*$', '', code)
StripClosingFence(code) ==
    IF IsSuffix(<< NL, FENCE >>, RStrip(code))
    THEN SubSeq(code, 1, Len(RStrip(code)) - 2)
    ELSE code

\* _sanitize_fences(code): the two substitutions, in the order of the source
sanitize_fences(code) == StripClosingFence(StripOpeningFence(code))

\* re.sub(r"\r\n", "\n", code)
NormalizeNewlines(s) == [i \in 1..Len(s) |-> IF s[i] = CRLF THEN NL ELSE s[i]]

\* dotted module names: a name is the concatenation of its tokens
GoogleAdkAgents == << "google", ".", "adk", ".", "agents" >>
GoogleAdkRunners == << "google", ".", "adk", ".", "runners" >>
GoogleAdkSessions == << "google", ".", "adk", ".", "sessions" >>
GoogleGenai == << "google", ".", "genai" >>

\* the lines the contract requires
ImportAgent == Words(<< << "from" >>, GoogleAdkAgents, << "import" >>, << "Agent" >> >>)
ImportRunner == Words(<< << "from" >>, GoogleAdkRunners, << "import" >>, << "Runner" >> >>)
ImportSessions ==
    Words(<< << "from" >>, GoogleAdkSessions, << "import" >>, << "InMemorySessionService" >> >>)
ImportTypes == Words(<< << "from" >>, GoogleGenai, << "import" >>, << "types" >> >>)
RunOnceSig == << "async", SP, "def", SP, "run_once" >>

\* dynamic_with_gradio.py: required (both generators)
required == { ImportAgent, ImportRunner, ImportSessions, ImportTypes, RunOnceSig }

\* dynamic_agent.py: required
required_agent ==
    { GoogleAdkAgents, GoogleAdkRunners, GoogleAdkSessions, GoogleGenai, RunOnceSig }

\* a guard that is content with any one of the required substrings
HasAny(req, code) == \E s \in req : Contains(s, code)

\* all(s in code for s in required)
HasAll(req, code) == \A s \in req : Contains(s, code)

(***************************************************************************)
(* The source patcher: _patch_generated_code.                              *)
(***************************************************************************)
\* index after the run of word tokens starting at i (i when none): \w*
RECURSIVE SkipWord(_, _)
SkipWord(s, i) == IF i <= Len(s) /\ IsWordTok(s[i]) THEN SkipWord(s, i + 1) ELSE i

\* the pieces the regular expressions of the source are made of
S0 == [k |-> "\\s*", t |-> {}]
S1 == [k |-> "\\s+", t |-> {}]
W1 == [k |-> "\\w+", t |-> {}]
\* one token out of T: a literal, or an alternation / class of literals
Lit(T) == [k |-> "lit", t |-> T]

\* index after the match of the piece p at i, or 0 when it does not match
MatchPiece(s, i, p) ==
    LET \* index after \s+ starting at i, or 0 when no whitespace stands at i
        SkipSpace1(s1, i1) == IF IsSpace(At(s1, i1)) THEN SkipSpace(s1, i1) ELSE 0
    IN  CASE p.k = "\\s*" -> SkipSpace(s, i)
          [] p.k = "\\s+" -> SkipSpace1(s, i)
          [] p.k = "\\w+" -> IF SkipWord(s, i) > i THEN SkipWord(s, i) ELSE 0
          [] OTHER -> IF At(s, i) \in p.t THEN i + 1 ELSE 0

\* re.match of the pieces pat at position i of s: the index after the match,
\* or 0 when there is none
RECURSIVE Match(_, _, _)
Match(s, i, pat) ==
    IF i = 0 THEN 0
    ELSE IF Len(pat) = 0 THEN i
    ELSE Match(s, MatchPiece(s, i, pat[1]), Tail(pat))

\* the last character of the line, trailing whitespace apart
LastTok(line) == At(RStrip(line), Len(RStrip(line)))

\* re.match(r'\s*async\s+def\s+run_once\s*\(', line)
IsRunOnceDef(line) ==
    Match(line, 1, << S0, Lit({"async"}), S1, Lit({"def"}), S1, Lit({"run_once"}), S0,
                      Lit({"("}) >>) > 0

\* re.match(r'\s*(def|async\s+def)\s+\w+\s*\(', line)
IsDefLine(line) ==
    \/ Match(line, 1, << S0, Lit({"def"}), S1, W1, S0, Lit({"("}) >>) > 0
    \/ Match(line, 1, << S0, Lit({"async"}), S1, Lit({"def"}), S1, W1, S0, Lit({"("}) >>) > 0

\* re.match(r'^\s*print\(.*\)\s*$', line)
IsPrintLine(line) ==
    /\ Match(line, 1, << S0, Lit({"print"}), Lit({"("}) >>) > 0
    /\ LastTok(line) = ")"
    /\ Len(RStrip(line)) >= Match(line, 1, << S0, Lit({"print"}), Lit({"("}) >>)

\* the loop of step "2) Strip pure print(...) lines inside run_once":
\* the lines kept, from the state (in_run_once, run_indent) of the scan
RECURSIVE StripPrints(_, _, _)
StripPrints(lines, in_run_once, run_indent) ==
    IF Len(lines) = 0 THEN << >>
    ELSE IF ~in_run_once /\ IsRunOnceDef(lines[1])
    THEN << lines[1] >> \o StripPrints(Tail(lines), TRUE, IndentOf(lines[1]))
    ELSE IF in_run_once /\ IsDefLine(lines[1]) /\ IndentOf(lines[1]) <= run_indent
    THEN << lines[1] >> \o StripPrints(Tail(lines), FALSE, run_indent)
    ELSE IF in_run_once /\ IsPrintLine(lines[1])
    THEN StripPrints(Tail(lines), in_run_once, run_indent)
    ELSE << lines[1] >> \o StripPrints(Tail(lines), in_run_once, run_indent)

CreateSessionCall == << "session_service", ".", "create_session" >>

\* session_service\.create_session\(
CreateSessionPieces ==
    << Lit({"session_service"}), Lit({"."}), Lit({"create_session"}), Lit({"("}) >>

\* pat = r'^(\s*)(?:await\s+)?session_service\.create_session\((.*)\)\s*$':
\* [found, indent (group 1), args (group 2)]
CreateSessionMatch(ln) ==
    LET \* index after '^(\s*)(?:await\s+)?session_service\.create_session\(' in ln, or 0
        CreateSessionOpen(ln1) ==
            IF Match(ln1, 1, << S0, Lit({"await"}), S1 >> \o CreateSessionPieces) > 0
            THEN Match(ln1, 1, << S0, Lit({"await"}), S1 >> \o CreateSessionPieces)
            ELSE Match(ln1, 1, << S0 >> \o CreateSessionPieces)
    IN  IF CreateSessionOpen(ln) > 0 /\ LastTok(ln) = ")" /\ Len(RStrip(ln)) >= CreateSessionOpen(ln)
        THEN [found |-> TRUE, indent |-> SubSeq(ln, 1, SkipSpace(ln, 1) - 1),
              args |-> SubSeq(ln, CreateSessionOpen(ln), Len(RStrip(ln)) - 1)]
        ELSE [found |-> FALSE, indent |-> << >>, args |-> << >>]

\* the three lines that replace a create_session statement
MaybeAwaitLines(indent, args) ==
    << indent \o << "_maybe", SP, "=", SP >> \o CreateSessionCall \o << "(" >> \o args \o << ")" >>,
       indent \o << "if", SP, "hasattr", "(", "_maybe", ",", SP, "'__await__'", ")", ":" >>,
       indent \o << IND, "await", SP, "_maybe" >> >>

\* repl(m) for a line the pattern matches, the line itself otherwise
NormalizeLine(ln) ==
    IF CreateSessionMatch(ln).found
    THEN MaybeAwaitLines(CreateSessionMatch(ln).indent, CreateSessionMatch(ln).args)
    ELSE << ln >>

RECURSIVE NormalizeLines(_)
NormalizeLines(lines) ==
    IF Len(lines) = 0 THEN << >>
    ELSE NormalizeLine(lines[1]) \o NormalizeLines(Tail(lines))

\* _normalize_create_session(src)
normalize_create_session(src) == Join(NormalizeLines(SplitLines(src)))

\* header = "APP_NAME = 'dyn_adk'\nUSER_ID = 'user-1'\nSESSION_ID = 'sess-1'\n\n"
ConstantsHeader ==
    << "APP_NAME", SP, "=", SP, "'dyn_adk'", NL,
       "USER_ID", SP, "=", SP, "'user-1'", NL,
       "SESSION_ID", SP, "=", SP, "'sess-1'", NL, NL >>

\* a header wanted wherever create_session occurs, the names defined or not
HeaderWherever(patched) == Contains(CreateSessionCall, patched)

\* need_constants
NeedConstants(patched) ==
    /\ Contains(CreateSessionCall, patched)
    /\ ~ \A k \in {"APP_NAME", "USER_ID", "SESSION_ID"} : Contains(<< k >>, patched)

\* step 3: the header prepended when needed
AddConstants(patched) ==
    IF NeedConstants(patched) THEN ConstantsHeader \o patched ELSE patched

\* 'if __name__ == "__main__":'
CanonicalGuard == << "if", SP, "__name__", SP, "==", SP, "\"__main__\"", ":" >>

\* index after the match at i of r'\bif\s+NAME\s*==\s*[quote]WORD[quote]\s*:', NAME
\* out of names and the quoted WORD out of quoted, or 0
GuardTypoAt(s, i, names, quoted) ==
    IF IsWordTok(At(s, i - 1)) THEN 0
    ELSE Match(s, i, << Lit({"if"}), S1, Lit(names), S0, Lit({"=="}), S0, Lit(quoted), S0,
                        Lit({":"}) >>)

\* re.sub(<typo variant>, 'if __name__ == "__main__":', patched): every match,
\* from the leftmost on, replaced
RECURSIVE SubGuard(_, _, _, _)
SubGuard(s, i, names, quoted) ==
    LET M == { j \in i..Len(s) : GuardTypoAt(s, j, names, quoted) > 0 }
    IN  IF M = {} THEN From(s, i)
        ELSE SubSeq(s, i, Least(M) - 1) \o CanonicalGuard
             \o SubGuard(s, GuardTypoAt(s, Least(M), names, quoted), names, quoted)

\* step 4: the three substitutions, in the order of the source
FixGuardTypos(patched) ==
    SubGuard(SubGuard(SubGuard(patched, 1, {"name"}, {"'main'", "\"main\""}),
                      1, {"__name__"}, {"'main'", "\"main\""}),
             1, {"name"}, {"'__main__'", "\"__main__\""})

\* re.search(r'if __name__ == "__main__":\s*$', patched)
GuardWithoutBody(patched) == IsSuffix(CanonicalGuard, RStrip(patched))

\* asyncio.run(run_once(INPUT_TEXT))
CallMain == << "asyncio", ".", "run", "(", "run_once", "(", "INPUT_TEXT", ")", ")" >>

\* "\n    print(asyncio.run(run_once(INPUT_TEXT)))\n"
DefaultGuardBody == << NL, IND, "print", "(" >> \o CallMain \o << ")", NL >>

\* step 5: the default body appended to a guard without one
AddGuardBody(patched) ==
    IF GuardWithoutBody(patched) THEN patched \o DefaultGuardBody ELSE patched

\* step 2 of the source's numbering: print stripping
PatchPrints(code) == Join(StripPrints(SplitLines(code), FALSE, 0))

\* _patch_generated_code(code)
patch_generated_code(code) ==
    AddGuardBody(FixGuardTypos(AddConstants(normalize_create_session(PatchPrints(code)))))

(***************************************************************************)
(* 2) Safe-ish execution: the import hook.                                 *)
(*    ALLOWED_MODULE_PREFIXES, ALLOWED_STD_MODULES are the same in both    *)
(*    files.  A module name is the token sequence that spells it, so       *)
(*    "googleapiclient" is << "google", "apiclient" >>.                    *)
(***************************************************************************)
ALLOWED_MODULE_PREFIXES == { << "google" >>, << "asyncio" >>, << "typing" >> }

ALLOWED_STD_MODULES ==
    { << "io" >>, << "json" >>, << "re" >>, << "os" >>, << "contextlib" >>,
      << "types" >>, << "collections" >> }

\* name.startswith(ALLOWED_MODULE_PREFIXES) or name in ALLOWED_STD_MODULES
safe_import_admits(name) ==
    \/ \E p \in ALLOWED_MODULE_PREFIXES : IsPrefix(p, name)
    \/ name \in ALLOWED_STD_MODULES

\* SAFE_BUILTIN_NAMES (identical in both files)
SAFE_BUILTIN_NAMES ==
    { "print", "len", "range", "enumerate", "zip", "min", "max", "abs",
      "str", "int", "float", "bool", "dict", "list", "set", "tuple",
      "isinstance", "issubclass", "getattr", "setattr", "hasattr",
      "object", "type", "property", "staticmethod", "classmethod",
      "sorted", "sum", "map", "filter", "any", "all",
      "Exception", "BaseException", "RuntimeError", "ValueError",
      "TypeError", "NameError", "ImportError", "KeyError", "IndexError",
      "__build_class__" }

(***************************************************************************)
(* The generated program, as the interpreter runs it under exec(code, g, g)*)
(* One machine step runs one statement (one source line).  Statements the  *)
(* model does not interpret (assignments, agent construction) are no-ops.  *)
(***************************************************************************)
\* the installed google-adk, as the executor finds it: is
\* InMemorySessionService.create_session a coroutine function (newer
\* releases) or a plain method (older ones)
VARIABLE adk_async

Exc(k, a) == [kind |-> k, arg |-> a]

\* quoted literals and the text they denote
LitValue(t) ==
    CASE t = "'hi'" -> << "hi" >>
      [] t = "'late'" -> << "late" >>
      [] t = "'ok'" -> << "ok" >>
      [] t = "' ok '" -> << SP, "ok", SP >>
      [] OTHER -> << "?" >>

IsLiteral(t) == t \in {"'hi'", "'late'", "'ok'", "' ok '"}

\* a token Python cannot parse
BAD == "<invalid syntax>"

IsBlank(line) == Len(Strip(line)) = 0 \/ At(Strip(line), 1) = "#"

\* index after the dotted name starting at i
RECURSIVE SkipDotted(_, _)
SkipDotted(s, i) ==
    IF i <= Len(s) /\ (IsWordTok(s[i]) \/ s[i] = ".") THEN SkipDotted(s, i + 1) ELSE i

\* the module name of the statement b, "import NAME" or "from NAME import ...":
\* what the statement passes to __import__
ImportedName(b) ==
    LET \* the dotted name that starts at position i of b
        NameAt(b1, i) == SubSeq(b1, i, SkipDotted(b1, i) - 1)
    IN  NameAt(b, SkipSpace(b, 2))

\* if NAME == QUOTED:
GuardPieces ==
    << Lit({"if"}), S1, Lit({"__name__", "name"}), S0, Lit({"=="}), S0,
       Lit({"'main'", "\"main\"", "'__main__'", "\"__main__\""}), S0, Lit({":"}) >>

\* index of the arguments of the session_service.create_session(...) call the
\* statement b makes, alone, awaited or assigned to a name, or 0
CreateSessionArgsAt(b) ==
    IF LastTok(b) # ")" THEN 0
    ELSE IF At(b, 1) = "await" THEN Match(b, 1, << Lit({"await"}), S1 >> \o CreateSessionPieces)
    ELSE IF At(b, SkipSpace(b, 2)) = "="
    THEN Match(b, 1, << W1, S0, Lit({"="}), S0 >> \o CreateSessionPieces)
    ELSE Match(b, 1, CreateSessionPieces)

\* the kind of the statement b (a line without its indentation)
StmtKindOf(b) ==
    LET \* the statement b is such an if
        IsGuard(b1) == Match(b1, 1, GuardPieces) = Len(b1) + 1
    IN  IF At(b, 1) \in {"import", "from"} /\ IsSpace(At(b, 2)) THEN "import"
        ELSE IF IsDefLine(b) THEN "def"
        ELSE IF IsPrintLine(b) THEN "print"
        ELSE IF b = << "try", ":" >> THEN "try"
        ELSE IF At(b, 1) = "except" THEN "except"
        ELSE IF IsGuard(b) THEN "guard"
        ELSE IF At(b, 1) = "return" THEN "return"
        ELSE IF At(b, 1) = "raise" THEN "raise"
        ELSE IF At(b, 1) = "await" THEN "await"
        ELSE IF CreateSessionArgsAt(b) > 0 THEN "create"
        ELSE IF b = MaybeAwaitLines(<< >>, << >>)[2] THEN "hasattr"
        ELSE IF IsWordTok(At(b, 1)) /\ At(b, 2) = "(" THEN "call"
        ELSE IF IsWordTok(At(b, 1)) /\ At(b, SkipSpace(b, 2)) = "=" THEN "assign"
        ELSE "other"

StmtKind(line) == IF IsBlank(line) THEN "blank" ELSE StmtKindOf(Strip(line))

\* first index j >= i of a non-blank line indented at most ind, or Len(lines) + 1
RECURSIVE NextAtIndent(_, _, _)
NextAtIndent(lines, i, ind) ==
    IF i > Len(lines) THEN Len(lines) + 1
    ELSE IF ~IsBlank(lines[i]) /\ IndentOf(lines[i]) <= ind THEN i
    ELSE NextAtIndent(lines, i + 1, ind)

\* first index j >= i of a non-blank line, or Len(lines) + 1
RECURSIVE NextNonBlank(_, _)
NextNonBlank(lines, i) ==
    IF i > Len(lines) THEN Len(lines) + 1
    ELSE IF ~IsBlank(lines[i]) THEN i
    ELSE NextNonBlank(lines, i + 1)

\* the line number of the syntax error the non-blank line i gives, nx the next
\* non-blank line, or 0.  Errors modelled: an unparsable token; a block header
\* without an indented body (reported at the next statement, or at the last
\* line of the text); an indented line that no header opens.
SyntaxErrorAt(lines, i, nx) ==
    LET \* a line that opens a block
        IsHeader(line1) == ~IsBlank(line1) /\ LastTok(line1) = ":"
        \* line nx is indented deeper than line i
        Deeper(lines1, i1, nx1) == nx1 <= Len(lines1) /\ IndentOf(lines1[nx1]) > IndentOf(lines1[i1])
    IN  IF \E j \in 1..Len(lines[i]) : lines[i][j] = BAD THEN i
        ELSE IF IsHeader(lines[i]) /\ ~Deeper(lines, i, nx) THEN Min(nx, Len(lines))
        ELSE IF ~IsHeader(lines[i]) /\ Deeper(lines, i, nx) THEN nx
        ELSE 0

\* the line number of the first syntax error at or after line i, or 0
RECURSIVE SyntaxErrorFrom(_, _)
SyntaxErrorFrom(lines, i) ==
    IF i > Len(lines) THEN 0
    ELSE IF IsBlank(lines[i]) THEN SyntaxErrorFrom(lines, i + 1)
    ELSE IF SyntaxErrorAt(lines, i, NextNonBlank(lines, i + 1)) > 0
    THEN SyntaxErrorAt(lines, i, NextNonBlank(lines, i + 1))
    ELSE SyntaxErrorFrom(lines, i + 1)

\* the same when the first statement may itself be indented
FirstSyntaxError(lines) ==
    IF /\ NextNonBlank(lines, 1) <= Len(lines)
       /\ IndentOf(lines[NextNonBlank(lines, 1)]) > 0
    THEN NextNonBlank(lines, 1)
    ELSE SyntaxErrorFrom(lines, 1)

\* the def line whose body holds line i, or 0 at module level
EnclosingDef(lines, i) ==
    LET D == { j \in 1..(i - 1) :
                 /\ IsDefLine(lines[j]) /\ IndentOf(lines[j]) < IndentOf(lines[i])
                 /\ \A k \in (j + 1)..(i - 1) :
                        IsBlank(lines[k]) \/ IndentOf(lines[k]) > IndentOf(lines[j]) }
    IN  IF D = {} THEN 0 ELSE Greatest(D)

\* the first line with an await outside an async function, or 0: found by the
\* compiler after the text has parsed
AwaitOutsideAsync(lines) ==
    LET \* line d is the def of a coroutine function
        IsAsyncDef(lines1, d) == d > 0 /\ At(Strip(lines1[d]), 1) = "async"
        A == { i \in 1..Len(lines) :
                 /\ ~IsBlank(lines[i]) /\ At(Strip(lines[i]), 1) = "await"
                 /\ ~IsAsyncDef(lines, EnclosingDef(lines, i)) }
    IN  IF A = {} THEN 0 ELSE Least(A)

\* compile(code, "<generated_adk>", "exec"): se.lineno, or 0 when it compiles
SyntaxErrorLine(code) ==
    IF FirstSyntaxError(SplitLines(code)) > 0 THEN FirstSyntaxError(SplitLines(code))
    ELSE AwaitOutsideAsync(SplitLines(code))

\* except CLS: does it catch an exception of class kind
Catches(cls, kind) ==
    \/ cls = "BaseException"
    \/ cls = "Exception" /\ kind # "BaseException"
    \/ cls = kind
    \/ cls = "ImportError" /\ kind = "ModuleNotFoundError"

\* the machine at the start of exec(code, g, g).  imports: the calls of the
\* import hook so far, each with the name asked for, the hook's verdict, and
\* the statements run and the output printed before the call.  names: the
\* names the program has bound; coros: those bound to a coroutine; calls: the
\* calls of session_service.create_session, with their arguments and whether
\* the result was awaited
NewMachine(code, input_text) ==
    LET NoExc == [kind |-> "", arg |-> << >>]
    IN  [ lines |-> SplitLines(code), ip |-> 1, frame |-> "module",
          def_at |-> 0, def_async |-> FALSE, ret_ip |-> 0, ret_print |-> FALSE,
          tries |-> << >>, out |-> << >>, console |-> << >>, redirect |-> TRUE,
          mods |-> {}, imports |-> << >>, status |-> "running", exc |-> NoExc,
          names |-> {}, coros |-> {}, calls |-> << >>, async |-> adk_async,
          retval |-> [none |-> TRUE, val |-> << >>], input |-> input_text, ran |-> 0 ]

\* exception e raised in machine m: unwind to the innermost handler that
\* catches it, or end the run
RECURSIVE Raise(_, _)
Raise(m, e) ==
    LET \* the machine with its innermost try statement left
        PopTry(m1) == [m1 EXCEPT !.tries = SubSeq(@, 1, Len(@) - 1)]
        \* the class the except clause b names; ":" for a bare except
        HandlerClass(b) == At(b, SkipSpace(b, 2))
        \* the handler ("except" line) of the try statement at line t, or 0
        HandlerOf(lines2, t) ==
            LET \* line h if it is an except clause, else 0
                ExceptAt(lines1, h) ==
                    IF h <= Len(lines1) /\ At(Strip(lines1[h]), 1) = "except" THEN h ELSE 0
            IN  ExceptAt(lines2, NextAtIndent(lines2, t + 1, IndentOf(lines2[t])))
    IN  IF Len(m.tries) = 0 THEN [m EXCEPT !.status = "raised", !.exc = e]
        ELSE LET Unwind(T, h) ==
                     LET Handle(cls) ==
                             IF cls # ":" /\ cls \notin SAFE_BUILTIN_NAMES
                             THEN Raise(PopTry(m), Exc("NameError", << cls >>))
                             ELSE IF cls = ":" \/ Catches(cls, e.kind)
                             THEN [PopTry(m) EXCEPT !.frame = T.frame, !.ip = h + 1]
                             ELSE Raise(PopTry(m), e)
                     IN  IF h = 0 THEN Raise(PopTry(m), e)
                         ELSE Handle(HandlerClass(Strip(m.lines[h])))
             IN  Unwind(m.tries[Len(m.tries)], HandlerOf(m.lines, m.tries[Len(m.tries)].at))

\* print(v): to the buffer while stdout is redirected, else to the console
Emit(m, v) ==
    IF m.redirect THEN [m EXCEPT !.out = @ \o v \o << NL >>]
    ELSE [m EXCEPT !.console = @ \o v \o << NL >>]

\* the value of a simple expression: [none, val]
Value(m, expr) ==
    IF Len(expr) = 1 /\ IsLiteral(expr[1]) THEN [none |-> FALSE, val |-> LitValue(expr[1])]
    ELSE IF Len(expr) >= 2 /\ expr[1] = "\"" /\ expr[Len(expr)] = "\""
    THEN [none |-> FALSE, val |-> SubSeq(expr, 2, Len(expr) - 1)]
    ELSE IF expr \in { << "INPUT_TEXT" >>, << "user_text" >> }
    THEN [none |-> FALSE, val |-> m.input]
    ELSE IF Len(expr) = 0 \/ expr = << "None" >> THEN [none |-> TRUE, val |-> << >>]
    ELSE [none |-> FALSE, val |-> << "?" >>]

\* str(v)
Str(v) == IF v.none THEN << "None" >> ELSE v.val

\* tries opened in the module frame only
RECURSIVE ModuleTries(_)
ModuleTries(ts) ==
    IF Len(ts) = 0 THEN << >>
    ELSE (IF ts[1].frame = "module" THEN << ts[1] >> ELSE << >>) \o ModuleTries(Tail(ts))

\* run_once returns v to its caller: the print(asyncio.run(run_once(...)))
\* statement of the module (ret_ip > 0), which then completes, or the
\* function-only harness
ReturnFrom(m, v) ==
    LET \* the machine back in the frame that called run_once
        BackInModule(m1) == [m1 EXCEPT !.frame = "module", !.tries = ModuleTries(m1.tries)]
    IN  IF ~m.def_async
        THEN Raise([BackInModule(m) EXCEPT !.ip = m.ret_ip], Exc("ValueError", << "coroutine" >>))
        ELSE IF m.ret_ip = 0
        THEN [BackInModule(m) EXCEPT !.status = "returned", !.retval = v]
        ELSE IF m.ret_print
        THEN [Emit(BackInModule(m), Str(v)) EXCEPT !.ip = m.ret_ip + 1, !.ran = @ + 1]
        ELSE [BackInModule(m) EXCEPT !.ip = m.ret_ip + 1, !.ran = @ + 1]

\* asyncio.run(run_once(INPUT_TEXT)) evaluated at line ret_ip (0: the harness)
EnterCall(m, ret_ip, ret_print) ==
    [m EXCEPT !.frame = "run_once", !.ip = m.def_at + 1, !.ret_ip = ret_ip,
              !.ret_print = ret_print, !.status = "running"]

\* the statement at m.ip completed normally
Advance(m) == [m EXCEPT !.ip = @ + 1, !.ran = @ + 1]

\* the statement skipped over its block, to the next line indented at most ind
SkipBlock(m, ind) ==
    [m EXCEPT !.ip = NextAtIndent(m.lines, m.ip + 1, ind), !.ran = @ + 1]

\* the import statement: __import__(name) goes through _safe_import
ExecImport(m, name) ==
    LET \* modules the interpreter can load once the hook has admitted them
        InstalledModules ==
            { << "asyncio" >>, << "typing" >>, << "os" >>, << "io" >>, << "json" >>, << "re" >>,
              << "types" >>, << "typing", "_extensions" >>, << "google", "apiclient" >>,
              << "socket" >>,
              GoogleAdkAgents, GoogleAdkRunners, GoogleAdkSessions, GoogleGenai }
        asked == [m EXCEPT !.imports = Append(@, [name |-> name,
                                                  admitted |-> safe_import_admits(name),
                                                  ran |-> m.ran, out |-> m.out])]
    IN  IF ~safe_import_admits(name) THEN Raise(asked, Exc("ImportError", name))
        ELSE IF name \notin InstalledModules
        THEN Raise(asked, Exc("ModuleNotFoundError", name))
        ELSE [Advance(asked) EXCEPT !.mods = @ \cup {name}]

\* the def statement: binds the name; the body is not run
ExecDef(m, b, ind) ==
    LET \* index of the function name in the def statement b
        DefNameAt(b1) ==
            IF At(b1, 1) = "def" THEN SkipSpace(b1, 2) ELSE SkipSpace(b1, SkipSpace(b1, 2) + 1)
    IN  IF /\ At(b, DefNameAt(b)) = "run_once" /\ ~IsWordTok(At(b, DefNameAt(b) + 1))
           /\ m.frame = "module"
        THEN [SkipBlock(m, ind) EXCEPT !.def_at = m.ip, !.def_async = (At(b, 1) = "async")]
        ELSE SkipBlock(m, ind)

\* the print statement; print(asyncio.run(run_once(INPUT_TEXT))) enters run_once
ExecPrint(m, arg) ==
    IF arg = CallMain /\ m.frame = "module"
    THEN IF << "asyncio" >> \notin m.mods THEN Raise(m, Exc("NameError", << "asyncio" >>))
         ELSE IF m.def_at = 0 THEN Raise(m, Exc("NameError", << "run_once" >>))
         ELSE EnterCall(m, m.ip, TRUE)
    ELSE Advance(Emit(m, Str(Value(m, arg))))

\* the first name the call reads that is not bound, or ""
UnboundIn(m, args) ==
    LET \* the names session_service.create_session(args) reads
        ConstantNames == {"APP_NAME", "USER_ID", "SESSION_ID"}
    IN  IF "session_service" \notin m.names THEN "session_service"
        ELSE IF \E i \in 1..Len(args) : args[i] \in ConstantNames \ m.names
        THEN args[Least({ i \in 1..Len(args) : args[i] \in ConstantNames \ m.names })]
        ELSE ""

\* the statement b calls session_service.create_session(args), args at index
\* at: alone, under await, or assigned to a name.  The result is a coroutine
\* when the installed create_session is a coroutine function.
ExecCreate(m, b, at) ==
    LET Called(awaiting, target, called) ==
            IF awaiting /\ ~m.async THEN Raise(called, Exc("TypeError", << "await" >>))
            ELSE IF target = "" THEN Advance(called)
            ELSE Advance([called EXCEPT !.names = @ \cup {target},
                                        !.coros = IF m.async THEN @ \cup {target}
                                                  ELSE @ \ {target}])
    IN  IF UnboundIn(m, SubSeq(b, at, Len(b) - 1)) # ""
        THEN Raise(m, Exc("NameError", << UnboundIn(m, SubSeq(b, at, Len(b) - 1)) >>))
        ELSE Called(b[1] = "await",
                    IF b[1] # "await" /\ At(b, SkipSpace(b, 2)) = "=" THEN b[1] ELSE "",
                    [m EXCEPT !.calls = Append(@, [args |-> SubSeq(b, at, Len(b) - 1),
                                                   awaited |-> b[1] = "await" /\ m.async])])

\* "await NAME": the coroutine NAME holds runs to its end
ExecAwait(m, name) ==
    IF name \notin m.names THEN Raise(m, Exc("NameError", << name >>))
    ELSE IF name \notin m.coros \/ Len(m.calls) = 0 THEN Raise(m, Exc("TypeError", << "await" >>))
    ELSE Advance([m EXCEPT !.calls[Len(m.calls)].awaited = TRUE])

\* "raise CLS" and the bare raise
ExecRaise(m, cls) ==
    IF cls = "" THEN Raise(m, Exc("RuntimeError", << >>))
    ELSE IF cls \notin SAFE_BUILTIN_NAMES THEN Raise(m, Exc("NameError", << cls >>))
    ELSE Raise(m, Exc(cls, << >>))

\* the statement b of kind k, indented by ind, at m.ip
Exec(m, b, k, ind) ==
    LET \* the argument of the print statement b
        PrintArg(b3) == SubSeq(b3, 3, Len(b3) - 1)
        \* the name and the quoted word the guard b compares
        GuardName(b1) == At(b1, Match(b1, 1, SubSeq(GuardPieces, 1, 2)))
        GuardQuoted(b2) == At(b2, Match(b2, 1, SubSeq(GuardPieces, 1, 6)))
    IN  IF k = "blank" THEN [m EXCEPT !.ip = @ + 1]
        ELSE IF m.frame = "run_once" /\ ind <= IndentOf(m.lines[m.def_at])
        THEN ReturnFrom(m, [none |-> TRUE, val |-> << >>])
        ELSE CASE k = "import" -> ExecImport(m, ImportedName(b))
               [] k = "def" -> ExecDef(m, b, ind)
               [] k = "print" -> ExecPrint(m, PrintArg(b))
               [] k = "try" ->
                    [Advance(m) EXCEPT !.tries = Append(@, [at |-> m.ip, frame |-> m.frame])]
               [] k = "except" ->
                    \* the try body ended normally: leave the try, skip the handler
                    [m EXCEPT !.tries = IF Len(@) > 0 THEN SubSeq(@, 1, Len(@) - 1) ELSE @,
                              !.ip = NextAtIndent(m.lines, m.ip + 1, ind)]
               [] k = "guard" ->
                    IF GuardName(b) = "name" THEN Raise(m, Exc("NameError", << "name" >>))
                    ELSE IF GuardQuoted(b) \in {"'__main__'", "\"__main__\""} THEN Advance(m)
                    ELSE SkipBlock(m, ind)
               [] k = "return" ->
                    IF m.frame = "run_once"
                    THEN ReturnFrom([m EXCEPT !.ran = @ + 1], Value(m, From(b, SkipSpace(b, 2))))
                    ELSE Advance(m)
               [] k = "raise" -> ExecRaise(m, At(b, SkipSpace(b, 2)))
               [] k = "await" ->
                    IF CreateSessionArgsAt(b) > 0 THEN ExecCreate(m, b, CreateSessionArgsAt(b))
                    ELSE ExecAwait(m, At(b, SkipSpace(b, 2)))
               [] k = "create" -> ExecCreate(m, b, CreateSessionArgsAt(b))
               [] k = "hasattr" ->
                    IF "_maybe" \notin m.names THEN Raise(m, Exc("NameError", << "_maybe" >>))
                    ELSE IF "_maybe" \in m.coros THEN Advance(m)
                    ELSE SkipBlock(m, ind)
               [] k = "assign" -> Advance([m EXCEPT !.names = @ \cup {b[1]}])
               [] k = "call" ->
                    IF b[1] \notin SAFE_BUILTIN_NAMES THEN Raise(m, Exc("NameError", << b[1] >>))
                    ELSE Advance(m)
               [] OTHER ->
                    \* (print)(v): the built-in called through a parenthesized name
                    IF /\ Len(b) >= 5 /\ SubSeq(b, 1, 4) = << "(", "print", ")", "(" >>
                       /\ LastTok(b) = ")"
                    THEN Advance(Emit(m, Str(Value(m, SubSeq(b, 5, Len(b) - 1)))))
                    ELSE Advance(m)

\* one statement of the generated program
Step(m) ==
    IF m.status # "running" THEN m
    ELSE IF m.ip > Len(m.lines)
    THEN IF m.frame = "module" THEN [m EXCEPT !.status = "finished"]
         ELSE ReturnFrom(m, [none |-> TRUE, val |-> << >>])
    ELSE Exec(m, Strip(m.lines[m.ip]), StmtKind(m.lines[m.ip]), IndentOf(m.lines[m.ip]))

\* the machine run until it stops
RECURSIVE RunToEnd(_)
RunToEnd(m) == IF m.status # "running" THEN m ELSE RunToEnd(Step(m))

(***************************************************************************)
(* Errors as the callers see them: the class, the argument, the class of   *)
(* the exception it was raised from, the standard output it quotes, the    *)
(* source excerpt it quotes, and the provider call that produced it.       *)
(***************************************************************************)
NoErr == [kind |-> "", arg |-> << >>, cause |-> "", captured |-> << >>,
          excerpt |-> << >>, call |-> 0]

\* an error that has lost its class: raised as a plain Exception
PlainErr(k, a) == [NoErr EXCEPT !.kind = "Exception", !.arg = a]

Err(k, a) == [NoErr EXCEPT !.kind = k, !.arg = a]

\* the annotated snippet around line ln: lines max(0, ln - 4) + 1 .. min(len, ln + 3),
\* the line ln marked ">> "
Snippet(lines, ln) ==
    [i \in 1..Max(0, Min(Len(lines), ln + 3) - Max(0, ln - 4)) |->
        [mark |-> (Max(0, ln - 4) + i = ln), no |-> Max(0, ln - 4) + i,
         text |-> lines[Max(0, ln - 4) + i]]]

\* what a call of run_generated_adk gives: an exception or a result, with
\* the buffer, the text that reached the real standard output, the number
\* of statements of the generated program that ran, and the calls of the hook
Outcome(raised, err, result, m) ==
    [raised |-> raised, err |-> err, result |-> result, out |-> m.out,
     console |-> m.console, ran |-> m.ran, imports |-> m.imports, calls |-> m.calls]

\* raise RuntimeError("Execution error in function-only mode: ...") from e
FunctionOnlyError(m, cause) ==
    Outcome(TRUE,
            [Err("RuntimeError", << "Execution error in function-only mode" >>)
                EXCEPT !.cause = cause],
            << >>, m)

\* an exception "except Exception" lets through
Escaped(m) == Outcome(TRUE, Err("BaseException", m.exc.arg), << >>, m)

\* a result handed back as run_once returned it
ResultAsReturned(m2) ==
    IF m2.status = "raised" \/ m2.retval.none THEN FunctionOnlyError(m2, "AttributeError")
    ELSE Outcome(FALSE, NoErr, m2.retval.val, m2)

\* function-only mode after exec: m2 is the machine after asyncio.run(run_once(input_text))
FunctionOnlyResult(m2) ==
    IF m2.status = "raised"
    THEN IF m2.exc.kind = "BaseException" THEN Escaped(m2)
         ELSE FunctionOnlyError(m2, m2.exc.kind)
    ELSE IF m2.retval.none THEN FunctionOnlyError(m2, "AttributeError")
    ELSE Outcome(FALSE, NoErr, Strip(m2.retval.val), m2)

\* function-only mode reading the buffer, as whole-script mode does
BufferAsResult(m0, bad, m1) ==
    IF bad > 0 THEN FunctionOnlyError(m0, "SyntaxError")
    ELSE IF m1.status = "raised" THEN FunctionOnlyError(m1, m1.exc.kind)
    ELSE Outcome(FALSE, NoErr, Strip(m1.out), m1)

\* the function_only branch: m0 the machine before exec, bad the syntax error
\* line, m1 the machine after exec
FunctionOnlyBranch(m0, bad, m1) ==
    IF bad > 0 THEN FunctionOnlyError(m0, "SyntaxError")
    ELSE IF m1.status = "raised"
    THEN IF m1.exc.kind = "BaseException" THEN Escaped(m1)
         ELSE FunctionOnlyError(m1, m1.exc.kind)
    ELSE IF m1.def_at = 0 THEN FunctionOnlyError(m1, "RuntimeError")
    ELSE FunctionOnlyResult(RunToEnd(EnterCall([m1 EXCEPT !.redirect = FALSE], 0, FALSE)))

\* the whole-script branch: compile, then exec under redirect_stdout
WholeScriptBranch(m0, bad, m1) ==
    IF bad > 0
    THEN Outcome(TRUE,
                 [Err("SyntaxError", << >>) EXCEPT !.cause = "SyntaxError",
                                                   !.excerpt = Snippet(m0.lines, bad)],
                 << >>, m0)
    ELSE IF m1.status = "raised"
    THEN IF m1.exc.kind = "BaseException" THEN Escaped(m1)
         ELSE Outcome(TRUE,
                      [Err("RuntimeError", m1.exc.arg) EXCEPT !.cause = m1.exc.kind,
                                                              !.captured = m1.out],
                      << >>, m1)
    ELSE Outcome(FALSE, NoErr, Strip(m1.out), m1)

\* dynamic_with_gradio.py: run_generated_adk(code, input_text, function_only)
run_generated_adk(code, input_text, function_only) ==
    IF function_only
    THEN FunctionOnlyBranch(NewMachine(code, input_text), SyntaxErrorLine(code),
                            RunToEnd(NewMachine(code, input_text)))
    ELSE WholeScriptBranch(NewMachine(code, input_text), SyntaxErrorLine(code),
                           RunToEnd(NewMachine(code, input_text)))

\* dynamic_agent.py after exec: nothing is caught or wrapped ("SyntaxError"
\* stands for the class and for its subclass IndentationError)
AgentBranch(m0, bad, m1) ==
    IF bad > 0 THEN Outcome(TRUE, Err("SyntaxError", << >>), << >>, m0)
    ELSE IF m1.status = "raised"
    THEN Outcome(TRUE, Err(m1.exc.kind, m1.exc.arg), << >>, m1)
    ELSE Outcome(FALSE, NoErr, Strip(m1.out), m1)

\* dynamic_agent.py: run_generated_adk(code, input_text)
run_generated_adk_agent(code, input_text) ==
    AgentBranch(NewMachine(code, input_text), SyntaxErrorLine(code),
                RunToEnd(NewMachine(code, input_text)))

\* the function-only generator's forbidden_patterns: any of
\*   r"if __name__\s*==\s*['\"]__main__['\"]", r"\bINPUT_TEXT\b", r"\bprint\s*\("
\* found by re.search in code
HasForbiddenPattern(code) ==
    \E i \in 1..Len(code) :
        \/ Match(code, i, << Lit({"if"}), Lit({SP}), Lit({"__name__"}), S0, Lit({"=="}), S0,
                             Lit({"'__main__'", "\"__main__\""}) >>) > 0
        \/ code[i] = "INPUT_TEXT" /\ ~IsWordTok(At(code, i - 1)) /\ ~IsWordTok(At(code, i + 1))
        \/ /\ ~IsWordTok(At(code, i - 1))
           /\ Match(code, i, << Lit({"print"}), S0, Lit({"("}) >>) > 0

(***************************************************************************)
(* Inputs: the generated programs and the completion texts explored.       *)
(***************************************************************************)
\* generated programs.  good follows every rule of ADK_SYSTEM_PROMPT and
\* snippet every rule of ADK_SYSTEM_PROMPT_FUNCTION_ONLY; the others depart
\* from them in one way each.
Programs ==
    LET script ==
            << ImportAgent, ImportRunner, ImportSessions, ImportTypes,
               << "import", SP, "asyncio" >>,
               << "async", SP, "def", SP, "run_once", "(", "user_text", ")", ":" >>,
               << IND, "return", SP, "'ok'" >>,
               CanonicalGuard,
               << IND, "print", "(" >> \o CallMain \o << ")" >> >>
        Drop(ls, i) == SubSeq(ls, 1, i - 1) \o SubSeq(ls, i + 1, Len(ls))
        Insert(ls, i, new) == SubSeq(ls, 1, i) \o new \o SubSeq(ls, i + 1, Len(ls))
        try_import ==
            << << "try", ":" >>, << IND, "import", SP, "socket" >>,
               << "except", SP, "ImportError", ":" >>, << IND, "pass" >> >>
        new_service(indent) ==
            indent \o << "session_service", SP, "=", SP, "InMemorySessionService", "(", ")" >>
        create(indent, await, a, u, s) ==
            indent \o await \o CreateSessionCall
                \o << "(", "app_name", "=", a, ",", SP, "user_id", "=", u, ",", SP,
                      "session_id", "=", s, ")" >>
        awaited == << "await", SP >>
    IN  [ good |-> Join(script),
          snippet |-> Join(SubSeq(script, 1, 7)),
          \* one required line missing (lines 1-4, 6)
          lacking |-> { Join(Drop(script, i)) : i \in {1, 2, 3, 4, 6} }
                      \cup { Join(Drop(SubSeq(script, 1, 7), i)) : i \in {2, 3, 6} },
          \* LlmAgent imported instead of Agent: the module path without the statement
          llm_agent |->
              Join([script EXCEPT ![1] = Words(<< << "from" >>, GoogleAdkAgents, << "import" >>,
                                                  << "LlmAgent" >> >>)]),
          \* "from google.genai import types" only inside a print of run_once
          print_held |->
              Join(Insert(Drop(script, 4), 5,
                          << << IND, "print", "(", "\"" >> \o ImportTypes \o << "\"", ")" >> >>)),
          \* a print, then an import the hook denies
          socket_after_print |->
              Join(Insert(script, 5, << << "print", "(", "'hi'", ")" >>,
                                        << "import", SP, "socket" >> >>)),
          \* an import the hook denies, inside a try statement that handles ImportError
          caught_import |-> Join(Insert(script, 5, try_import)),
          caught_import_snippet |-> Join(Insert(SubSeq(script, 1, 7), 5, try_import)),
          \* imports of googleapiclient and typing_extensions
          prefix_imports |->
              Join(Insert(script, 5, << << "import", SP, "google", "apiclient" >>,
                                        << "import", SP, "typing", "_extensions" >> >>)),
          \* a top-level print after the body of run_once
          late_print |-> Join(Insert(script, 7, << << "print", "(", "'late'", ")" >> >>)),
          \* a print inside the body of run_once
          inner_print |-> Join(Insert(script, 6, << << IND, "print", "(", "'hi'", ")" >> >>)),
          \* the session created as ADK_SYSTEM_PROMPT words it: the three names
          \* read, none of them assigned
          session_named |->
              Join(Insert(script, 6, << new_service(<< IND >>),
                                        create(<< IND >>, << >>, "APP_NAME", "USER_ID",
                                               "SESSION_ID") >>)),
          \* the same after the header's three assignments
          session_defined |->
              ConstantsHeader
                  \o Join(Insert(script, 6, << new_service(<< IND >>),
                                               create(<< IND >>, << >>, "APP_NAME", "USER_ID",
                                                      "SESSION_ID") >>)),
          \* the session created under await, the arguments literals
          session_await |->
              Join(Insert(script, 6, << new_service(<< IND >>),
                                        create(<< IND >>, awaited, "'dyn_adk'", "'user-1'",
                                               "'sess-1'") >>)),
          session_snippet |->
              Join(Insert(SubSeq(script, 1, 7), 6,
                          << new_service(<< IND >>),
                             create(<< IND >>, awaited, "'dyn_adk'", "'user-1'", "'sess-1'") >>)),
          \* the session created by a statement of the module, outside run_once
          session_module |->
              Join(Insert(script, 5, << new_service(<< >>),
                                        create(<< >>, << >>, "'dyn_adk'", "'user-1'",
                                               "'sess-1'") >>)),
          \* a comment after the body of the guard
          trailing |-> Join(script \o << << "#", SP, "done" >> >>),
          \* the guard misspelt in the three ways the patcher knows
          typo_guards |->
              { Join([script EXCEPT ![8] = << "if", SP, n, SP, "==", SP, q, ":" >>]) :
                  << n, q >> \in { << "name", "\"main\"" >>, << "__name__", "'main'" >>,
                                   << "name", "'__main__'" >> } },
          \* a line Python cannot parse in the body of run_once
          bad_syntax |-> Join(Insert(script, 6, << << IND, "x", SP, "=", SP, BAD >> >>)),
          bad_syntax_snippet |->
              Join(Insert(SubSeq(script, 1, 7), 6, << << IND, "x", SP, "=", SP, BAD >> >>)),
          \* a print, then a raise, in the module
          raises |->
              { Join(Insert(script, 7, << << "print", "(", "'hi'", ")" >>,
                                         << "raise", SP, cls >> >>)) :
                  cls \in {"RuntimeError", "BaseException"} },
          \* run_once returns a literal with blanks around it
          padded_snippet |->
              Join([SubSeq(script, 1, 7) EXCEPT ![7] = << IND, "return", SP, "' ok '" >>]),
          \* run_once prints through the parenthesized name of the built-in
          paren_print_snippet |->
              Join(Insert(SubSeq(script, 1, 7), 6,
                          << << IND, "(", "print", ")", "(", "'hi'", ")" >> >>)),
          \* the module prints through the parenthesized name before run_once is defined
          noisy_snippet |->
              Join(Insert(SubSeq(script, 1, 7), 5,
                          << << "(", "print", ")", "(", "'late'", ")" >> >>)),
          \* run_once's signature only in a comment: the name is never bound
          commented_snippet |->
              Join(SubSeq(script, 1, 5) \o << << "#", SP >> \o script[6] >>),
          \* a plain function after run_once, then the guard as the last line
          bare_guard |->
              Join(SubSeq(script, 1, 7)
                      \o << << "def", SP, "helper", "(", ")", ":" >>,
                            << IND, "return", SP, "'x'" >>, CanonicalGuard >>) ]

\* a fenced block with language tag
Fenced(tag, prog) == << FENCE >> \o tag \o << NL >> \o prog \o << NL, FENCE >>

\* the completion texts the provider may answer with
Completions ==
    { Fenced(<< "python" >>, p) :
        p \in { Programs.good, Programs.snippet, Programs.llm_agent, Programs.print_held,
                Programs.socket_after_print, Programs.caught_import,
                Programs.caught_import_snippet, Programs.prefix_imports,
                Programs.late_print, Programs.inner_print, Programs.session_named,
                Programs.session_defined, Programs.session_await, Programs.session_snippet,
                Programs.session_module, Programs.trailing, Programs.bad_syntax,
                Programs.bad_syntax_snippet, Programs.padded_snippet,
                Programs.bare_guard, Programs.paren_print_snippet,
                Programs.noisy_snippet, Programs.commented_snippet }
              \cup Programs.lacking \cup Programs.typo_guards \cup Programs.raises }
    \cup { \* prose before the block, tag py
           << "Here", SP, "is", SP, "the", SP, "code", ":", NL >>
               \o Fenced(<< "py" >>, Programs.good),
           \* no tag
           Fenced(<< >>, Programs.snippet),
           \* tag Python, \r\n line ends
           Fenced(<< "Python" >>,
                  [i \in 1..Len(Programs.snippet) |->
                      IF Programs.snippet[i] = NL THEN CRLF ELSE Programs.snippet[i]]),
           \* a shell block before the program
           Fenced(<< "bash" >>, << "pip", SP, "install" >>) \o << NL >>
               \o Fenced(<< "python" >>, Programs.good),
           \* two programs: the second lacks a required line, or the first does
           Fenced(<< "python" >>, Programs.good) \o << NL >>
               \o Fenced(<< "python" >>, Programs.llm_agent),
           Fenced(<< "python" >>, Programs.llm_agent) \o << NL >>
               \o Fenced(<< "python" >>, Programs.good),
           \* no fence, an unclosed fence, an empty answer
           << "Here", SP, "is", SP, "the", SP, "code", ":", NL >> \o Programs.good,
           << FENCE, "python", NL >> \o Programs.good,
           << >> }

\* what the next provider call answers with: an error class, or "ok"
ProviderErrors == {"Timeout", "APIError"}

\* the provider's behaviour: the errors of its first calls; it answers after them
RECURSIVE SeqsUpTo(_, _)
SeqsUpTo(S, n) ==
    IF n = 0 THEN { << >> }
    ELSE LET shorter == SeqsUpTo(S, n - 1)
         IN  shorter \cup { Append(q, x) : q \in { r \in shorter : Len(r) = n - 1 }, x \in S }

Scripts == SeqsUpTo(ProviderErrors, MaxFailures)

\* max_retries = max(0, int(retries)), 2 when int() raises
NormalizeRetries(r) == IF r.num THEN Max(0, r.val) ELSE 2

(***************************************************************************)
(* The pipeline as a state machine: one request of generate_and_run        *)
(* (dynamic_with_gradio.py) or one run of dynamic_agent.py's __main__.     *)
(***************************************************************************)
VARIABLES
    pc,               \* where the request is: idle, llm, extract, validate, patch, run, done, crashed
    app,              \* "gradio" (generate_and_run) or "agent" (dynamic_agent.py)
    function_only,    \* the mode flag
    input_text,       \* the input text of the request
    max_retries,      \* the normalized retry count
    attempt,          \* the loop variable of _llm_completion
    script,           \* the provider: the errors its first calls end with
    hist,             \* the outcome of every litellm.completion call made
    sleeps,           \* the delays slept so far, in hundredths of a second
    last_err,         \* _llm_completion's last_err
    litellm_api_key,  \* the module global litellm.api_key
    resp,             \* what the completion call returned to the generator
    code,             \* the source text in hand
    err,              \* the exception that reached the caller
    stages,           \* the stages the request has passed
    outcome,          \* what run_generated_adk gave
    response,         \* generate_and_run's 4-part return value
    request,          \* the request in hand: its number in the process, the API key
                      \* passed, and whether the environment holds a provider key
    sys_stdout,       \* the process global sys.stdout: 0 the stream the process started
                      \* with, c the StringIO "out" of call c of run_generated_adk
    streams,          \* the text written to each of these streams
    invocations,      \* the calls of run_generated_adk of one process, each a thread
    state,            \* simple_standalone_adk: the value of gr.State, a dict
    reply,            \* what the last call of chat_fn did
    sessions,         \* the number of sessions create_runner has made
    disk,             \* story_with_adk: what each file of out_dir holds
    job,              \* the call of render_scenes_with_reference in progress
    rendered          \* what the last call of render_scenes_with_reference returned

vars == << pc, app, function_only, input_text, max_retries, attempt, script, hist, sleeps,
           last_err, litellm_api_key, resp, code, err, stages, outcome, response, request,
           adk_async, sys_stdout, streams, invocations, state, reply, sessions, disk, job,
           rendered >>

\* the state of the pipeline
pipeline == << pc, app, function_only, input_text, max_retries, attempt, script, hist, sleeps,
               last_err, litellm_api_key, resp, code, err, stages, outcome, response,
               request, adk_async >>

\* the standard output of the process and the calls that redirect it
stdio == << sys_stdout, streams, invocations >>

\* the chat UI of simple_standalone_adk/gradio_app.py
chat_ui == << state, reply, sessions >>

\* render_scenes_with_reference of story_with_adk/tools.py and the files of out_dir
renderer == << disk, job, rendered >>

\* {"runner": None}: the dict gr.State starts with and reset_chat returns
NoSession == [runner |-> 0]

\* the file names the scenes may ask for
FileNames == {"scene_01.png", "scene_02.png"}

\* no call of render_scenes_with_reference in progress: scenes, the index
\* of the entry the loop is at, files and paths, and the entries saved
NoJob == [running |-> FALSE, scenes |-> << >>, next |-> 1, files |-> << >>, paths |-> << >>,
          saved |-> << >>]

\* no value returned yet: the dict returned with its keys, and the entries of
\* scenes_json, the entries saved, and the entry the call failed at
NoReturn == [status |-> "", keys |-> {"status", "detail"}, files |-> << >>, paths |-> << >>,
             detail |-> "", scenes |-> << >>, saved |-> << >>, failed_at |-> 0]

\* a call of run_generated_adk not made yet
NoCall == [pc |-> "idle", prints |-> 0, fails |-> FALSE, old_target |-> 0, wrote |-> << >>,
           raised |-> FALSE, captured |-> << >>, result |-> << >>, overlapped |-> FALSE]

NoResp == [none |-> TRUE, content |-> << >>]

NoOutcome == [raised |-> FALSE, err |-> NoErr, result |-> << >>, out |-> << >>,
              console |-> << >>, ran |-> 0, imports |-> << >>, calls |-> << >>]

NoResponse == [given |-> FALSE, code |-> << >>, result |-> << >>, error |-> FALSE,
               detail |-> NoErr]

Init ==
    /\ pc = "idle"
    /\ app = "gradio"
    /\ function_only = FALSE
    /\ input_text = << >>
    /\ max_retries = 0
    /\ attempt = 0
    /\ script = << >>
    /\ hist = << >>
    /\ sleeps = << >>
    /\ last_err = NoErr
    /\ litellm_api_key = << >>
    /\ resp = NoResp
    /\ code = << >>
    /\ err = NoErr
    /\ stages = << >>
    /\ outcome = NoOutcome
    /\ response = NoResponse
    /\ request = [no |-> 0, api_key |-> << >>, env_has_key |-> FALSE]
    /\ adk_async = FALSE
    /\ sys_stdout = 0
    /\ streams = [c \in 0..MaxCalls |-> << >>]
    /\ invocations = [c \in 1..MaxCalls |-> NoCall]
    /\ state = NoSession
    /\ reply = [called |-> FALSE, with |-> NoSession, yields |-> << >>, raised |-> "",
                read |-> {}]
    /\ sessions = 0
    /\ disk = [f \in FileNames |-> 0]
    /\ job = NoJob
    /\ rendered = NoReturn

\* a generator that starts over after an error
RetryGeneration(e, generated_code_for_error) ==
    /\ err' = e
    /\ response' = response
    /\ pc' = "llm"

\* generate_and_run's except clause: the exception e ends the request with
\* (generated_code_for_error, "", visible, detail)
Caught(e, generated_code_for_error) ==
    /\ err' = e
    /\ response' = [given |-> TRUE, code |-> generated_code_for_error, result |-> << >>,
                    error |-> TRUE, detail |-> e]
    /\ pc' = "done"

\* an exception nothing catches
Uncaught(e) ==
    /\ err' = e
    /\ response' = response
    /\ pc' = "crashed"

\* generate_and_run up to the call of the generator, and _llm_completion up
\* to its loop: sanity checks, key check, normalization, litellm.api_key
Start ==
    LET \* the "Max retries" input: a number, or something int() rejects
        RetriesInputs ==
            { [num |-> TRUE, val |-> v] : v \in -1..MaxRetries } \cup { [num |-> FALSE, val |-> 0] }
    IN  \E api_key \in { << >>, << SP >>, << "key-A" >> },
           user_intent \in { << SP >>, << "uppercase" >> },
           text_in \in { << >>, << SP, "hello", SP >>, << "bye" >> },
           fo \in BOOLEAN, retries \in RetriesInputs, sc \in Scripts :
          \E env_has_key \in (IF api_key = << >> THEN BOOLEAN ELSE {FALSE}) :
            /\ pc = "idle"
            /\ app' = "gradio"
            /\ request' = [no |-> request.no + 1, api_key |-> api_key, env_has_key |-> env_has_key]
            /\ IF Len(Strip(user_intent)) = 0
               THEN /\ Caught(Err("ValueError", << "User Intent is empty." >>), << >>)
                    /\ UNCHANGED << function_only, input_text, max_retries, script,
                                    litellm_api_key, stages >>
               ELSE IF Len(Strip(text_in)) = 0
               THEN /\ Caught(Err("ValueError", << "Input Text is empty." >>), << >>)
                    /\ UNCHANGED << function_only, input_text, max_retries, script,
                                    litellm_api_key, stages >>
               ELSE IF ~(Len(api_key) > 0 \/ env_has_key)
               THEN /\ Caught(Err("RuntimeError", << "No provider API key found." >>), << >>)
                    /\ UNCHANGED << function_only, input_text, max_retries, script,
                                    litellm_api_key, stages >>
               ELSE /\ function_only' = fo
                    /\ input_text' = text_in
                    /\ max_retries' = NormalizeRetries(retries)
                    /\ script' = sc
                    /\ litellm_api_key' = IF Len(Strip(api_key)) > 0 THEN Strip(api_key)
                                          ELSE litellm_api_key
                    /\ stages' = << "generate" >>
                    /\ pc' = "llm"
                    /\ UNCHANGED << err, response >>
            /\ UNCHANGED << attempt, hist, sleeps, last_err, resp, code, outcome, adk_async >>

\* a delay that does not grow
FlatBackoff(a) == 75

\* "time.sleep(0.75 * (2 ** attempt))", in hundredths of a second
Backoff(a) == 75 * (2 ^ a)

\* a loop that gives up one attempt early
RetryOneShort(a, n) == a < n - 2

\* "if attempt < max_retries - 1": a failed attempt is followed by a sleep and
\* another attempt, else by "raise last_err"
SleepsAndRetries(a, n) == a < n - 1

\* the outcome of the next litellm.completion call
NextOutcome == IF Len(hist) < Len(script) THEN script[Len(hist) + 1] ELSE "ok"

\* one iteration of _llm_completion's loop in which the call returns: with
\* any of Completions when it is the first call; after failed calls with a
\* program, a snippet, or a text without code
LlmAttemptOk ==
    /\ pc = "llm" /\ app = "gradio"
    /\ attempt < max_retries
    /\ NextOutcome = "ok"
    /\ \E text \in IF hist = << >> THEN Completions
                   ELSE { Fenced(<< "python" >>, Programs.good),
                          Fenced(<< "python" >>, Programs.snippet), << >> } :
           resp' = [none |-> FALSE, content |-> text]
    /\ hist' = Append(hist, "ok")
    /\ pc' = "extract"
    /\ UNCHANGED << app, function_only, input_text, max_retries, attempt, script, sleeps,
                    last_err, litellm_api_key, code, err, stages, outcome, response >>
    /\ UNCHANGED << request, adk_async >>

\* one iteration of _llm_completion's loop in which the call raises
LlmAttemptFail ==
    /\ pc = "llm" /\ app = "gradio"
    /\ attempt < max_retries
    /\ NextOutcome # "ok"
    /\ LET e == [Err(NextOutcome, << >>) EXCEPT !.call = Len(hist) + 1]
       IN  /\ hist' = Append(hist, NextOutcome)
           /\ last_err' = e
           /\ IF SleepsAndRetries(attempt, max_retries)
              THEN /\ sleeps' = Append(sleeps, Backoff(attempt))
                   /\ attempt' = attempt + 1
                   /\ UNCHANGED << pc, err, response >>
              ELSE /\ Caught(e, << >>)
                   /\ UNCHANGED << sleeps, attempt >>
    /\ UNCHANGED << app, function_only, input_text, max_retries, script, litellm_api_key,
                    resp, code, stages, outcome >>
    /\ UNCHANGED << request, adk_async >>

\* _llm_completion's loop ends without a return or a raise: it returns None
LlmReturnNone ==
    /\ pc = "llm" /\ app = "gradio"
    /\ attempt >= max_retries
    /\ resp' = NoResp
    /\ pc' = "extract"
    /\ UNCHANGED << app, function_only, input_text, max_retries, attempt, script, hist,
                    sleeps, last_err, litellm_api_key, code, err, stages, outcome, response >>
    /\ UNCHANGED << request, adk_async >>

\* the generators of dynamic_with_gradio.py from resp to the normalized code
Extract ==
    /\ pc = "extract" /\ app = "gradio"
    /\ LET Found(m) ==
               IF resp.none
               THEN /\ Caught(Err("AttributeError", << "NoneType", "choices" >>), << >>)
                    /\ UNCHANGED << code, stages >>
               ELSE IF ~m.found
               THEN /\ Caught(Err("ValueError",
                                  << "No python code block found in LLM output." >>), << >>)
                    /\ UNCHANGED << code, stages >>
               ELSE /\ code' = NormalizeNewlines(sanitize_fences(Strip(m.group1)))
                    /\ stages' = Append(stages, "extract")
                    /\ pc' = "validate"
                    /\ UNCHANGED << err, response >>
       IN  Found(CODE_FENCE_search(resp.content))
    /\ UNCHANGED << app, function_only, input_text, max_retries, attempt, script, hist,
                    sleeps, last_err, litellm_api_key, resp, outcome >>
    /\ UNCHANGED << request, adk_async >>

\* the required-substring guard, and the function-only generator's forbidden patterns
Validate ==
    /\ pc = "validate" /\ app = "gradio"
    /\ IF ~HasAll(required, code)
       THEN /\ Caught(Err("ValueError",
                          IF function_only
                          THEN << "Generated code missing required ADK pieces or run_once signature." >>
                          ELSE << "Generated code missing required ADK pieces." >>),
                      << >>)
            /\ UNCHANGED stages
       ELSE IF function_only /\ HasForbiddenPattern(code)
       THEN /\ Caught(Err("ValueError",
                          << "Generated code violated no-main / no-print / no-INPUT_TEXT rule." >>),
                      << >>)
            /\ UNCHANGED stages
       ELSE /\ stages' = Append(stages, "validate")
            /\ pc' = IF function_only THEN "run" ELSE "patch"
            /\ UNCHANGED << err, response >>
    /\ IF pc' = "run" THEN adk_async' \in BOOLEAN ELSE UNCHANGED adk_async
    /\ UNCHANGED << app, function_only, input_text, max_retries, attempt, script, hist,
                    sleeps, last_err, litellm_api_key, resp, code, outcome >>
    /\ UNCHANGED request

\* generate_adk_code's return _patch_generated_code(code)
Patch ==
    /\ pc = "patch" /\ app = "gradio"
    /\ code' = patch_generated_code(code)
    /\ stages' = Append(stages, "patch")
    /\ pc' = "run"
    /\ adk_async' \in BOOLEAN
    /\ UNCHANGED << app, function_only, input_text, max_retries, attempt, script, hist,
                    sleeps, last_err, litellm_api_key, resp, err, outcome, response >>
    /\ UNCHANGED request

\* generate_and_run's call of run_generated_adk and its return
Run ==
    /\ pc = "run" /\ app = "gradio"
    /\ LET Return(r) ==
               /\ outcome' = r
               /\ IF ~r.raised
                  THEN /\ response' = [given |-> TRUE, code |-> code, result |-> r.result,
                                       error |-> FALSE, detail |-> NoErr]
                       /\ pc' = "done"
                       /\ UNCHANGED err
                  ELSE IF r.err.kind = "BaseException" THEN Uncaught(r.err)
                  ELSE Caught(r.err, code)
       IN  Return(run_generated_adk(code, Strip(input_text), function_only))
    /\ stages' = Append(stages, "execute")
    /\ UNCHANGED << app, function_only, input_text, max_retries, attempt, script, hist,
                    sleeps, last_err, litellm_api_key, resp, code >>
    /\ UNCHANGED << request, adk_async >>

\* dynamic_agent.py __main__ up to the completion call of generate_adk_code
StartAgent ==
    \E API_KEY \in { << >>, << SP >>, << "key-G" >> }, env_has_key \in BOOLEAN, sc \in Scripts :
        /\ pc = "idle" /\ request.no = 0
        /\ app' = "agent"
        /\ request' = [no |-> 1, api_key |-> API_KEY, env_has_key |-> env_has_key]
        /\ IF ~(Len(API_KEY) > 0 \/ env_has_key)
           THEN /\ Uncaught(Err("RuntimeError", << "No provider API key found." >>))
                /\ UNCHANGED << input_text, script, litellm_api_key, stages >>
           ELSE /\ input_text' = << "what", SP, "is", SP, "a", SP, "matrix?" >>
                /\ script' = sc
                /\ litellm_api_key' = IF Len(API_KEY) > 0 THEN API_KEY ELSE litellm_api_key
                /\ stages' = << "generate" >>
                /\ pc' = "llm"
                /\ UNCHANGED << err, response >>
        /\ UNCHANGED << function_only, max_retries, attempt, hist, sleeps, last_err, resp,
                        code, outcome, adk_async >>

\* dynamic_agent.py generate_adk_code: its one litellm.completion call
AgentCompletion ==
    /\ pc = "llm" /\ app = "agent"
    /\ hist' = Append(hist, NextOutcome)
    /\ IF NextOutcome = "ok"
       THEN /\ \E text \in Completions : resp' = [none |-> FALSE, content |-> text]
            /\ pc' = "extract"
            /\ UNCHANGED << err, response >>
       ELSE /\ Uncaught([Err(NextOutcome, << >>) EXCEPT !.call = Len(hist) + 1])
            /\ UNCHANGED resp
    /\ UNCHANGED << app, function_only, input_text, max_retries, attempt, script, sleeps,
                    last_err, litellm_api_key, code, stages, outcome >>
    /\ UNCHANGED << request, adk_async >>

\* dynamic_agent.py generate_adk_code from resp to its return
AgentGenerate ==
    /\ pc = "extract" /\ app = "agent"
    /\ LET Found(m, c) ==
               IF ~m.found
               THEN /\ Uncaught(Err("ValueError",
                                    << "No python code block found in LLM output." >>))
                    /\ UNCHANGED << code, stages >>
               ELSE IF ~HasAll(required_agent, c)
               THEN /\ Uncaught(Err("ValueError",
                                    << "Generated code missing required ADK pieces." >>))
                    /\ code' = c
                    /\ stages' = Append(stages, "extract")
               ELSE /\ code' = c
                    /\ stages' = stages \o << "extract", "validate" >>
                    /\ pc' = "run"
                    /\ UNCHANGED << err, response >>
       IN  Found(CODE_FENCE_agent_search(resp.content),
                 NormalizeNewlines(Strip(CODE_FENCE_agent_search(resp.content).group1)))
    /\ IF pc' = "run" THEN adk_async' \in BOOLEAN ELSE UNCHANGED adk_async
    /\ UNCHANGED << app, function_only, input_text, max_retries, attempt, script, hist,
                    sleeps, last_err, litellm_api_key, resp, outcome >>
    /\ UNCHANGED request

\* dynamic_agent.py __main__: result = run_generated_adk(code, SAMPLE_INPUT)
AgentRun ==
    /\ pc = "run" /\ app = "agent"
    /\ LET Return(r) ==
               /\ outcome' = r
               /\ IF r.raised THEN Uncaught(r.err)
                  ELSE /\ pc' = "done"
                       /\ UNCHANGED << err, response >>
       IN  Return(run_generated_adk_agent(code, input_text))
    /\ stages' = Append(stages, "execute")
    /\ UNCHANGED << app, function_only, input_text, max_retries, attempt, script, hist,
                    sleeps, last_err, litellm_api_key, resp, code >>
    /\ UNCHANGED << request, adk_async >>

\* the Gradio app serves its next request: generate_and_run starts afresh
\* with new arguments, the module globals are what the earlier requests left
NewRequest ==
    /\ pc = "done" /\ app = "gradio"
    /\ request.no < MaxRequests
    /\ pc' = "idle"
    /\ function_only' = FALSE
    /\ input_text' = << >>
    /\ max_retries' = 0
    /\ attempt' = 0
    /\ script' = << >>
    /\ hist' = << >>
    /\ sleeps' = << >>
    /\ last_err' = NoErr
    /\ resp' = NoResp
    /\ code' = << >>
    /\ err' = NoErr
    /\ stages' = << >>
    /\ outcome' = NoOutcome
    /\ response' = NoResponse
    /\ request' = [no |-> request.no, api_key |-> << >>, env_has_key |-> FALSE]
    /\ adk_async' = FALSE
    /\ UNCHANGED << app, litellm_api_key >>

Next ==
    \/ Start /\ UNCHANGED << stdio, chat_ui, renderer >>
    \/ LlmAttemptOk /\ UNCHANGED << stdio, chat_ui, renderer >>
    \/ LlmAttemptFail /\ UNCHANGED << stdio, chat_ui, renderer >>
    \/ LlmReturnNone /\ UNCHANGED << stdio, chat_ui, renderer >>
    \/ Extract /\ UNCHANGED << stdio, chat_ui, renderer >>
    \/ Validate /\ UNCHANGED << stdio, chat_ui, renderer >>
    \/ Patch /\ UNCHANGED << stdio, chat_ui, renderer >>
    \/ Run /\ UNCHANGED << stdio, chat_ui, renderer >>
    \/ StartAgent /\ UNCHANGED << stdio, chat_ui, renderer >>
    \/ AgentCompletion /\ UNCHANGED << stdio, chat_ui, renderer >>
    \/ AgentGenerate /\ UNCHANGED << stdio, chat_ui, renderer >>
    \/ AgentRun /\ UNCHANGED << stdio, chat_ui, renderer >>

\* one request of generate_and_run, or one run of dynamic_agent.py
Spec == Init /\ [][Next]_vars

\* the Gradio app as a server: up to MaxRequests requests, one after the other
NextServer ==
    \/ Start /\ UNCHANGED << stdio, chat_ui, renderer >>
    \/ LlmAttemptOk /\ UNCHANGED << stdio, chat_ui, renderer >>
    \/ LlmAttemptFail /\ UNCHANGED << stdio, chat_ui, renderer >>
    \/ LlmReturnNone /\ UNCHANGED << stdio, chat_ui, renderer >>
    \/ Extract /\ UNCHANGED << stdio, chat_ui, renderer >>
    \/ Validate /\ UNCHANGED << stdio, chat_ui, renderer >>
    \/ Patch /\ UNCHANGED << stdio, chat_ui, renderer >>
    \/ Run /\ UNCHANGED << stdio, chat_ui, renderer >>
    \/ StartAgent /\ UNCHANGED << stdio, chat_ui, renderer >>
    \/ AgentCompletion /\ UNCHANGED << stdio, chat_ui, renderer >>
    \/ AgentGenerate /\ UNCHANGED << stdio, chat_ui, renderer >>
    \/ AgentRun /\ UNCHANGED << stdio, chat_ui, renderer >>
    \/ NewRequest /\ UNCHANGED << stdio, chat_ui, renderer >>

SpecServer == Init /\ [][NextServer]_vars

(***************************************************************************)
(* run_generated_adk called from several threads of one process: each call *)
(* redirects the process global sys.stdout to its own buffer while the     *)
(* generated program runs (contextlib.redirect_stdout around exec).        *)
(***************************************************************************)
\* what the program of call c prints, one line at a time
TextOf(c) == << << SP, "hi" >>, << "late" >>, << "ok", SP >>, << "?" >> >>[Min(c, 4)]

\* calls that have begun and not yet returned or raised
Active == { c \in 1..MaxCalls : invocations[c].pc \in {"exec", "left"} }

\* redirect_stdout.__enter__: sys.stdout is saved and set to the buffer "out"
\* of the call; the program the call runs prints one line or none, then ends
\* or raises
Enter(c) ==
    /\ invocations[c].pc = "idle"
    /\ \E n \in {0, 1}, f \in BOOLEAN :
           invocations' =
               [d \in 1..MaxCalls |->
                   IF d = c
                   THEN [NoCall EXCEPT !.pc = "exec", !.prints = n, !.fails = f,
                                       !.old_target = sys_stdout,
                                       !.overlapped = Active # {}]
                   ELSE IF d \in Active THEN [invocations[d] EXCEPT !.overlapped = TRUE]
                   ELSE invocations[d]]
    /\ sys_stdout' = c
    /\ UNCHANGED streams

\* a print of the program of call c: the text goes to the stream sys.stdout
\* names at this moment
Write(c) ==
    /\ invocations[c].pc = "exec" /\ invocations[c].prints > 0
    /\ streams' = [streams EXCEPT ![sys_stdout] = @ \o TextOf(c) \o << NL >>]
    /\ invocations' = [invocations EXCEPT ![c].prints = @ - 1,
                                          ![c].wrote = @ \o TextOf(c) \o << NL >>]
    /\ UNCHANGED sys_stdout

\* a with block that leaves sys.stdout as it is
LeaveRedirected(c) ==
    /\ invocations[c].pc = "exec" /\ invocations[c].prints = 0
    /\ invocations' =
           [invocations EXCEPT ![c] =
               IF @.fails THEN [@ EXCEPT !.pc = "returned", !.raised = TRUE,
                                         !.captured = streams[c]]
               ELSE [@ EXCEPT !.pc = "left"]]
    /\ UNCHANGED << sys_stdout, streams >>

\* exec ends or raises.  A raise is caught inside the with block and raised
\* again as a RuntimeError holding out.getvalue(); then, or when exec ends,
\* redirect_stdout.__exit__ sets sys.stdout to the saved stream
Leave(c) ==
    /\ invocations[c].pc = "exec" /\ invocations[c].prints = 0
    /\ invocations' =
           [invocations EXCEPT ![c] =
               IF @.fails THEN [@ EXCEPT !.pc = "returned", !.raised = TRUE,
                                         !.captured = streams[c]]
               ELSE [@ EXCEPT !.pc = "left"]]
    /\ sys_stdout' = invocations[c].old_target
    /\ UNCHANGED streams

\* a return of the buffer as it is
ReturnUntrimmed(c) ==
    /\ invocations[c].pc = "left"
    /\ invocations' = [invocations EXCEPT ![c].pc = "returned", ![c].result = streams[c]]
    /\ UNCHANGED << sys_stdout, streams >>

\* return out.getvalue().strip()
Return(c) ==
    /\ invocations[c].pc = "left"
    /\ invocations' = [invocations EXCEPT ![c].pc = "returned",
                                          ![c].result = Strip(streams[c])]
    /\ UNCHANGED << sys_stdout, streams >>

NextThreads ==
    \E c \in 1..MaxCalls :
        \/ Enter(c) /\ UNCHANGED << pipeline, chat_ui, renderer >>
        \/ Write(c) /\ UNCHANGED << pipeline, chat_ui, renderer >>
        \/ Leave(c) /\ UNCHANGED << pipeline, chat_ui, renderer >>
        \/ Return(c) /\ UNCHANGED << pipeline, chat_ui, renderer >>

\* up to MaxCalls calls of run_generated_adk in the threads of one process
SpecThreads == Init /\ [][NextThreads]_vars

(***************************************************************************)
(* The chat UI of simple_standalone_adk/gradio_app.py: the buttons Start   *)
(* Session and New Chat, and the chat handler, around the dict in gr.State.*)
(***************************************************************************)
\* chat_fn(message, history, state), the events of the runner being given
ChatFn ==
    LET \* the events runner.run_async gives for a message: a streamed delta, a
        \* final response with text in two of its three parts, a final response
        \* without parts, an event that is neither
        Events ==
            { [delta_text |-> << "Hel" >>, final |-> FALSE, parts |-> << >>],
              [delta_text |-> << >>, final |-> TRUE,
               parts |-> << << SP, "Hi", SP >>, << >>, << "there" >> >>],
              [delta_text |-> << >>, final |-> TRUE, parts |-> << >>],
              [delta_text |-> << >>, final |-> FALSE, parts |-> << << "tool" >> >>] }
        \* "\n".join(t.strip() for t in text_bits if t), text_bits the texts of the
        \* parts that have one
        RECURSIVE FinalText(_)
        FinalText(parts) ==
            IF parts = << >> THEN << >>
            ELSE IF Head(parts) = << >> THEN FinalText(Tail(parts))
            ELSE IF \A j \in 2..Len(parts) : parts[j] = << >>
            THEN Strip(Head(parts))
            ELSE Strip(Head(parts)) \o << NL >> \o FinalText(Tail(parts))
        \* what chat_fn yields from event i on, final_text the deltas so far
        RECURSIVE Stream(_, _, _)
        Stream(events, i, final_text) ==
            IF i > Len(events)
            THEN IF final_text # << >> THEN << final_text >> ELSE << >>
            ELSE IF events[i].delta_text # << >>
            THEN << final_text \o events[i].delta_text >>
                     \o Stream(events, i + 1, final_text \o events[i].delta_text)
            ELSE IF /\ events[i].final
                    /\ \E k \in 1..Len(events[i].parts) : events[i].parts[k] # << >>
            THEN << FinalText(events[i].parts) >>
            ELSE Stream(events, i + 1, final_text)
    IN  /\ \E first \in Events, second \in Events, n \in 0..2 :
               reply' =
                   IF "runner" \notin DOMAIN state
                   THEN [called |-> TRUE, with |-> state, raised |-> "", read |-> {},
                         yields |-> << << "Please click 'Start Session' first." >> >>]
                   ELSE IF "user_id" \notin DOMAIN state
                   THEN [called |-> TRUE, with |-> state, raised |-> "KeyError",
                         read |-> {"runner"}, yields |-> << >>]
                   ELSE [called |-> TRUE, with |-> state, raised |-> "",
                         read |-> {"runner", "user_id", "session_id"},
                         yields |-> Stream(SubSeq(<< first, second >>, 1, n), 1, << >>)]
        /\ UNCHANGED << state, sessions >>

\* the button Start Session: start_session, which calls create_runner
StartSession ==
    /\ sessions < MaxSessions
    /\ \E model_name \in {"gemini-2.0-flash", "gemini-2.0-flash-lite", "gemini-2.0-pro"} :
           state' = [runner |-> sessions + 1, session_service |-> sessions + 1,
                     user_id |-> sessions + 1, session_id |-> sessions + 1,
                     model |-> model_name]
    /\ sessions' = sessions + 1
    /\ UNCHANGED reply

\* the button New Chat: reset_chat
ResetChat ==
    /\ state' = NoSession
    /\ UNCHANGED << reply, sessions >>

NextChat ==
    \/ StartSession /\ UNCHANGED << pipeline, stdio, renderer >>
    \/ ChatFn /\ UNCHANGED << pipeline, stdio, renderer >>
    \/ ResetChat /\ UNCHANGED << pipeline, stdio, renderer >>

\* the chat UI from its launch on
SpecChat == Init /\ [][NextChat]_vars

(***************************************************************************)
(* render_scenes_with_reference of story_with_adk/tools.py: one image per  *)
(* scene of scenes_json, written to out_dir.                               *)
(***************************************************************************)
\* a path left as it was joined
JoinedPath(file_name) == << "out_dir", "/", file_name >>

\* _abs(os.path.join(out_dir, file_name))
PathOf(file_name) == << "/abs", "/", "out_dir", "/", file_name >>

\* return {"status": "error", "detail": ...}, the failure being at entry k of scenes
ErrorReturn(detail, scenes, k) ==
    [NoReturn EXCEPT !.status = "error", !.detail = detail, !.scenes = scenes,
                     !.saved = job.saved, !.failed_at = k]

\* render_scenes_with_reference up to its loop: the reference image is read
\* and scenes_json is parsed
StartRender ==
    LET \* the entries scenes_json may hold; "" stands for a missing key, null or ""
        SceneEntries ==
            { [file_name |-> f, image_prompt |-> "a scene"] : f \in FileNames \cup {""} }
                \cup { [file_name |-> "scene_01.png", image_prompt |-> ""] }
    IN  /\ ~job.running /\ rendered = NoReturn
        /\ \E ref_readable \in BOOLEAN, is_json_array \in BOOLEAN,
              scenes_json \in SeqsUpTo(SceneEntries, MaxScenes) :
               IF ~ref_readable
               THEN /\ rendered' = ErrorReturn("failed to load char_ref", << >>, 0)
                    /\ UNCHANGED job
               ELSE IF ~is_json_array
               THEN /\ rendered' = ErrorReturn("invalid scenes_json", << >>, 0)
                    /\ UNCHANGED job
               ELSE /\ job' = [NoJob EXCEPT !.running = TRUE, !.scenes = scenes_json]
                    /\ UNCHANGED rendered
        /\ UNCHANGED disk

\* one iteration of "for s in scenes": the entry is skipped, or the model is
\* called and the first part with inline data is saved.  The call may raise;
\* the response may have no candidates (an exception nothing catches), no
\* part with inline data, or data Image.open rejects; image.save may raise
\* before or after it has written to the file
RenderScene ==
    /\ job.running /\ job.next <= Len(job.scenes)
    /\ LET s == job.scenes[job.next]
           k == job.next
       IN  IF s.file_name = "" \/ s.image_prompt = ""
           THEN /\ job' = [job EXCEPT !.next = k + 1]
                /\ UNCHANGED << disk, rendered >>
           ELSE \E result \in {"saved", "no inline data", "call raises", "no candidates",
                               "open raises", "save raises", "save raises midway"} :
                   CASE result = "saved" ->
                          /\ disk' = [disk EXCEPT ![s.file_name] = k]
                          /\ job' = [job EXCEPT !.next = k + 1,
                                                !.files = Append(@, s.file_name),
                                                !.paths = Append(@, PathOf(s.file_name)),
                                                !.saved = Append(@, k)]
                          /\ UNCHANGED rendered
                     [] result = "no inline data" ->
                          /\ job' = [job EXCEPT !.next = k + 1]
                          /\ UNCHANGED << disk, rendered >>
                     [] result = "call raises" ->
                          /\ rendered' = ErrorReturn("model call failed", job.scenes, k)
                          /\ job' = NoJob
                          /\ UNCHANGED disk
                     [] result = "no candidates" ->
                          /\ rendered' = [ErrorReturn("", job.scenes, k)
                                             EXCEPT !.status = "raised"]
                          /\ job' = NoJob
                          /\ UNCHANGED disk
                     [] result \in {"open raises", "save raises"} ->
                          /\ rendered' = ErrorReturn("image save failed for", job.scenes, k)
                          /\ job' = NoJob
                          /\ UNCHANGED disk
                     [] OTHER ->
                          /\ rendered' = ErrorReturn("image save failed for", job.scenes, k)
                          /\ job' = NoJob
                          /\ disk' = [disk EXCEPT ![s.file_name] = -1]

\* return {"status": "success", "files": files, "paths": paths}
FinishRender ==
    /\ job.running /\ job.next > Len(job.scenes)
    /\ rendered' = [NoReturn EXCEPT !.status = "success", !.files = job.files,
                                    !.paths = job.paths, !.scenes = job.scenes,
                                    !.saved = job.saved,
                                    !.keys = {"status", "files", "paths"}]
    /\ job' = NoJob
    /\ UNCHANGED disk

NextRender ==
    \/ StartRender /\ UNCHANGED << pipeline, stdio, chat_ui >>
    \/ RenderScene /\ UNCHANGED << pipeline, stdio, chat_ui >>
    \/ FinishRender /\ UNCHANGED << pipeline, stdio, chat_ui >>

\* one call of render_scenes_with_reference
SpecRender == Init /\ [][NextRender]_vars

(***************************************************************************)
(* Properties of the generator's retry loop.                               *)
(***************************************************************************)
\* the request has passed the stage
Passed(stage) == \E i \in 1..Len(stages) : stages[i] = stage

\* the request got as far as _llm_completion and is past it
PastCompletion == app = "gradio" /\ stages # << >> /\ pc \notin {"idle", "llm"}

\* the completion call succeeded at its third attempt, after two failures,
\* and nothing was raised by _llm_completion
ThirdAttemptReturned ==
    /\ Len(hist) = 3 /\ hist[1] # "ok" /\ hist[2] # "ok" /\ hist[3] = "ok"
    /\ ~resp.none
    /\ err.kind \notin ProviderErrors

\* C1, as amended: when max_retries is at least 3, a call that fails on the
\* first two attempts and succeeds on the third returns the successful
\* response: no error is raised and no attempt follows the success.
C1_ThirdAttemptSucceeds ==
    (PastCompletion /\ Len(script) = 2 /\ max_retries >= 3) => ThirdAttemptReturned

\* C1's case: two failures, the third attempt returned, and the request ended
\* with a result
C1_Witness ==
    /\ PastCompletion /\ Len(script) = 2 /\ max_retries >= 3
    /\ hist = << script[1], script[2], "ok" >>
    /\ pc = "done" /\ response.given /\ ~response.error

\* C1 as stated, for every max_retries: two failures, then success, returns
\* the successful response
C1_AsStated == (PastCompletion /\ Len(script) = 2) => ThirdAttemptReturned

\* C2 as stated: for a provider that fails every attempt, _llm_completion
\* makes at most max_retries attempts and then raises the error of the
\* final attempt.
C2_RaisesFinalError ==
    (PastCompletion /\ Len(script) >= max_retries)
        => /\ Len(hist) <= max_retries
           /\ Len(hist) >= 1
           /\ err.kind = hist[Len(hist)] /\ err.call = Len(hist)
           /\ pc = "done"

\* C3 as stated: for every normalized retry count, 0 included, a call that
\* obtained no completion ends with the provider's error: _llm_completion
\* never returns without a response, and code extraction never starts
\* without one.
C3_NeverReturnsNone ==
    /\ (app = "gradio" /\ pc = "extract") => ~resp.none
    /\ (PastCompletion /\ \A i \in 1..Len(hist) : hist[i] # "ok")
           => err.kind \in ProviderErrors

\* the contract errors: no code fence, a required substring missing
IsContractError(e) ==
    /\ e.kind = "ValueError"
    /\ e.arg \in { << "No python code block found in LLM output." >>,
                   << "Generated code missing required ADK pieces." >>,
                   << "Generated code missing required ADK pieces or run_once signature." >> }

\* C6: a contract error is never retried.  Once litellm.completion has
\* returned a response no further attempt is made (the response is the last
\* entry of the call history), and a contract error ends the request at
\* once: it reaches the caller and nothing is executed.
C6_ContractErrorNotRetried ==
    /\ \A i \in 1..(Len(hist) - 1) : hist[i] # "ok"
    /\ IsContractError(err)
          => /\ pc \in {"done", "crashed"}
             /\ Len(hist) >= 1 /\ hist[Len(hist)] = "ok"
             /\ ~Passed("execute")
             /\ app = "gradio" => (response.error /\ response.detail = err)

\* C6's case: a contract error after the first attempt, with attempts to spare
C6_Witness ==
    /\ IsContractError(err) /\ app = "gradio"
    /\ max_retries >= 2 /\ hist = << "ok" >>
    /\ pc = "done"

(***************************************************************************)
(* Properties of validation: the required contract substrings.             *)
(***************************************************************************)
\* the required list of the generator that serves the request
RequiredHere == IF app = "agent" THEN required_agent ELSE required

\* code is still the text the generator validated (the patcher has not run)
CodeAsValidated == Passed("extract") /\ ~Passed("patch")

\* the error of the required-substring guard
IsMissingPieces(e) ==
    /\ e.kind = "ValueError"
    /\ e.arg \in { << "Generated code missing required ADK pieces." >>,
                   << "Generated code missing required ADK pieces or run_once signature." >> }

\* C4, as amended: a text the generator accepts holds, when it is validated,
\* every one of the five substrings of that generator's own required list
\* (dynamic_with_gradio.py: four import statements and "async def run_once";
\* dynamic_agent.py: four dotted module paths and "async def run_once");
\* a text that lacks one is rejected with the validation error, and the
\* executor never runs a text that was not validated.
C4_AcceptedHasRequired ==
    /\ (Passed("validate") /\ CodeAsValidated) => \A s \in RequiredHere : Contains(s, code)
    /\ Passed("execute") => Passed("validate")
    /\ (CodeAsValidated /\ pc \notin {"validate", "extract"}
           /\ \E s \in RequiredHere : ~Contains(s, code))
          => IsMissingPieces(err) /\ pc \in {"done", "crashed"} /\ ~Passed("execute")
    /\ IsMissingPieces(err) => \E s \in RequiredHere : ~Contains(s, code)

\* C4's case: dynamic_agent.py accepted and ran a text that names the four
\* module paths but imports LlmAgent, not Agent
C4_Witness ==
    /\ app = "agent" /\ pc = "done" /\ Passed("validate") /\ Passed("execute")
    /\ code = Programs.llm_agent
    /\ ~Contains(ImportAgent, code)

\* C4 as stated: every text a generator returned holds the four import
\* statements and the run_once signature
C4_AsStated ==
    (pc = "run" \/ Passed("execute")) => \A s \in required : Contains(s, code)

(***************************************************************************)
(* Properties of code extraction.                                          *)
(***************************************************************************)
\* the positions of the code fences of the completion text
Fences == { i \in 1..Len(resp.content) : resp.content[i] = FENCE }

\* the positions of the fences that open a block: another fence follows
Openers(tags) ==
    { f \in Fences : (tags = {} \/ At(resp.content, f + 1) \in tags)
                     /\ \E g \in Fences : g > f }

\* the text between the fence at f, less the tag when one of tags follows it,
\* and the next fence, trimmed, with \n line ends
BlockAt(f, tags) ==
    LET from == IF At(resp.content, f + 1) \in tags THEN f + 2 ELSE f + 1
    IN  NormalizeNewlines(Strip(SubSeq(resp.content, from,
                                       Least({ g \in Fences : g >= from }) - 1)))

\* the error of a completion without a code block
IsNoCodeBlock(e) ==
    e.kind = "ValueError" /\ e.arg = << "No python code block found in LLM output." >>

\* the generator has dealt with a completion text
Extracted == ~resp.none /\ pc \notin {"idle", "llm", "extract"}

\* the first block that opens with one of tags (any block when optional) is
\* the code in hand, and its absence is the validation error
FirstBlockUsed(tags, optional) ==
    LET O == Openers(IF optional THEN {} ELSE tags)
    IN  IF O = {}
        THEN IsNoCodeBlock(err) /\ ~Passed("extract") /\ pc \in {"done", "crashed"}
        ELSE /\ Passed("extract") /\ ~IsNoCodeBlock(err)
             /\ CodeAsValidated => code = BlockAt(Least(O), tags)

PythonTags == {"python", "Python"}

PyTags == {"py", "Py"}

\* C5, as amended: dynamic_with_gradio.py's generators raise the validation
\* error when the completion holds no fenced block (no fence followed by
\* another), and otherwise validate and run the content of the first fenced
\* block only, less a python or py tag; dynamic_agent.py's generator does so
\* for the blocks whose fence is followed by the tag python: it raises the
\* error when there is none and otherwise uses the first of them.
C5_FirstBlockExtracted ==
    Extracted => IF app = "agent" THEN FirstBlockUsed(PythonTags, FALSE)
                 ELSE FirstBlockUsed(PythonTags \cup PyTags, TRUE)

\* C5's case: a completion with two fenced programs, the first of which was
\* validated and run, and the second of which was not looked at
C5_Witness ==
    /\ Extracted /\ app = "gradio" /\ Cardinality(Fences) = 4
    /\ code = Programs.llm_agent
    /\ pc = "done" /\ IsMissingPieces(err)

\* C5 as stated: every generator raises the validation error when the
\* completion holds no fenced block and otherwise uses the first fenced block
C5_AsStated == Extracted => FirstBlockUsed(PythonTags \cup PyTags, TRUE)

(***************************************************************************)
(* Properties of the sandbox: the import hook.                             *)
(***************************************************************************)
\* the allow-list as a list of modules: an allow-listed module, or an
\* allow-listed package or a module below it
AllowListed(name) ==
    \/ name \in ALLOWED_STD_MODULES
    \/ \E p \in ALLOWED_MODULE_PREFIXES : name = p \/ IsPrefix(p \o << "." >>, name)

\* the calls of the import hook during the run
HookCalls == { outcome.imports[i] : i \in 1..Len(outcome.imports) }

\* C7 as stated: the hook admits a module name if and only if it is
\* allow-listed; a top-level module whose name merely begins with an allowed
\* prefix string is rejected.
C7_HookFollowsAllowList == \A c \in HookCalls : c.admitted <=> AllowListed(c.name)

\* the text holds an import statement whose module the hook rejects
DeniedImportIn(text) ==
    \E i \in 1..Len(SplitLines(text)) :
        /\ StmtKind(SplitLines(text)[i]) = "import"
        /\ ~safe_import_admits(ImportedName(Strip(SplitLines(text)[i])))

\* C8 as stated: a program that holds a disallowed import anywhere is stopped
\* by the violation before any of its statements runs: nothing has run and
\* nothing has been printed when the violation is raised.
C8_ViolationBeforeAnyCode ==
    (Passed("execute") /\ DeniedImportIn(code))
        => /\ outcome.raised
           /\ outcome.ran = 0 /\ outcome.out = << >> /\ outcome.console = << >>
           /\ \A c \in HookCalls : ~c.admitted => c.ran = 0 /\ c.out = << >>

\* C9 as stated: a violation raised by the import hook is fatal: no handler
\* of the generated code catches it, the run ends failed, and the program
\* runs no statement after the disallowed import.
C9_ViolationIsFatal ==
    \A c \in HookCalls : ~c.admitted => outcome.raised /\ outcome.ran = c.ran

(***************************************************************************)
(* Properties of the patcher.                                              *)
(***************************************************************************)
\* the index of the first line of lines that is the def of run_once, or 0
RunOnceAt(lines) ==
    IF \E i \in 1..Len(lines) : IsRunOnceDef(lines[i])
    THEN Least({ i \in 1..Len(lines) : IsRunOnceDef(lines[i]) })
    ELSE 0

\* the print statements after the end of run_once: the single-line prints at
\* or after the first line, below the def, indented no deeper than the def
PrintsAfterRunOnce(lines) ==
    IF RunOnceAt(lines) = 0 THEN { }
    ELSE { lines[j] : j \in { k \in 1..Len(lines) :
                                /\ k >= NextAtIndent(lines, RunOnceAt(lines) + 1,
                                                     IndentOf(lines[RunOnceAt(lines)]))
                                /\ IsPrintLine(lines[k]) } }

\* the lines of a text, as a set
LinesOf(text) == { SplitLines(text)[i] : i \in 1..Len(SplitLines(text)) }

\* C10 as stated: the patcher removes only prints inside the body of
\* run_once; every print after the end of run_once (a later top-level print,
\* a print in the body of the __main__ guard) is a line of the output.
C10_LaterPrintsKept ==
    [][(pc = "patch" /\ pc' = "run")
          => PrintsAfterRunOnce(SplitLines(code)) \subseteq LinesOf(code')]_vars

(***************************************************************************)
(* Properties of the patcher: create_session statements.                   *)
(***************************************************************************)
\* the lines of lines that are a create_session statement on its own, with
\* or without await
SessionStmts(lines) ==
    { k \in 1..Len(lines) : /\ At(Strip(lines[k]), 1) \in {"await", "session_service"}
                            /\ CreateSessionArgsAt(Strip(lines[k])) > 0 }

\* the lines of lines that bind _maybe to a create_session call
MaybeStmts(lines) ==
    { k \in 1..Len(lines) : /\ At(Strip(lines[k]), 1) = "_maybe"
                            /\ CreateSessionArgsAt(Strip(lines[k])) > 0 }

\* the call of a create_session statement: session_service.create_session(args)
SessionCallOf(line) == From(Strip(line), CreateSessionArgsAt(Strip(line)) - 4)

\* the arguments of the call of a create_session statement
SessionArgsOf(line) ==
    SubSeq(Strip(line), CreateSessionArgsAt(Strip(line)), Len(Strip(line)) - 1)

\* new holds, for the create_session statement old, the three lines: the call
\* with the same arguments bound to _maybe at the same indentation, the
\* hasattr test at that indentation, and the await of _maybe below it
ReplacedIn(new, old) ==
    \E j \in 1..(Len(new) - 2) :
        /\ new[j] = SubSeq(old, 1, SkipSpace(old, 1) - 1)
                        \o << "_maybe", SP, "=", SP >> \o SessionCallOf(old)
        /\ IndentOf(new[j + 1]) = IndentOf(old)
        /\ Strip(new[j + 1])
              = << "if", SP, "hasattr", "(", "_maybe", ",", SP, "'__await__'", ")", ":" >>
        /\ IndentOf(new[j + 2]) > IndentOf(old)
        /\ Strip(new[j + 2]) = << "await", SP, "_maybe" >>

\* the patcher's step from the lines old to the lines new replaced every
\* create_session statement among those of where, and added no other
SessionsPatched(old, new, where) ==
    /\ \A k \in where : ReplacedIn(new, old[k])
    /\ where = SessionStmts(old)
          => /\ SessionStmts(new) = {}
             /\ Cardinality(MaybeStmts(new)) = Cardinality(SessionStmts(old))

\* the run r of the patched lines under an ADK whose create_session is
\* awaitable or not: every call made is the call of a statement, in order,
\* with that statement's arguments, awaited exactly when it is awaitable;
\* no await of a plain value is attempted; a run that calls run_once and ends
\* without an exception has made the call of every statement once
SessionsCalledOnce(lines, r, awaitable) ==
    /\ Len(r.calls) <= Cardinality(MaybeStmts(lines))
    /\ \A k \in MaybeStmts(lines) :
          LET i == Cardinality({ j \in MaybeStmts(lines) : j <= k })
          IN  i <= Len(r.calls)
                 => /\ r.calls[i].args = SessionArgsOf(lines[k])
                    /\ r.calls[i].awaited <=> awaitable
    /\ ~(r.raised /\ r.err.cause \in {"TypeError", "SyntaxError"})
    /\ (~r.raised /\ Contains(CallMain, Join(lines)))
          => Len(r.calls) = Cardinality(MaybeStmts(lines))

\* the patcher's step
PatchStep == pc = "patch" /\ pc' = "run"

\* the executor's step on a patched text that parses
RunPatchedStep ==
    /\ pc = "run" /\ app = "gradio" /\ ~function_only /\ pc' # "run"
    /\ FirstSyntaxError(SplitLines(code)) = 0

\* C11 as stated: after the patcher's step 2 a create_session statement
\* (alone on its line, with or without await) has become three lines that
\* keep its indentation and its arguments, and the patched program invokes
\* the call once per statement and awaits the result if and only if it is
\* awaitable.
C11_SessionAwaitedIfAwaitable ==
    [][/\ PatchStep => SessionsPatched(SplitLines(code), SplitLines(code'),
                                       SessionStmts(SplitLines(code)))
       /\ RunPatchedStep => SessionsCalledOnce(SplitLines(code), outcome', adk_async)]_vars

(***************************************************************************)
(* Properties of the patcher: the session constants.                       *)
(***************************************************************************)
\* the lines of lines that assign the name k
DefiningLines(k, lines) ==
    { i \in 1..Len(lines) : /\ At(Strip(lines[i]), 1) = k
                            /\ At(Strip(lines[i]), SkipSpace(Strip(lines[i]), 2)) = "=" }

\* lines reads the name k: k stands on a line that does not assign it
References(k, lines) ==
    \E i \in 1..Len(lines) :
        /\ i \notin DefiningLines(k, lines)
        /\ \E j \in 1..Len(lines[i]) : lines[i][j] = k

\* the patcher's step from old to new added a definition of each of the
\* three names
ConstantsPrepended(old, new) ==
    \A k \in {"APP_NAME", "USER_ID", "SESSION_ID"} :
        Cardinality(DefiningLines(k, new)) = Cardinality(DefiningLines(k, old)) + 1

\* C12 as stated: whenever the source references any of APP_NAME, USER_ID,
\* SESSION_ID without defining it the patcher prepends the three
\* definitions, and it does not prepend them when the source defines them.
C12_ConstantsInjectedWhenUndefined ==
    [][PatchStep =>
          LET old == SplitLines(code)
              new == SplitLines(code')
              names == {"APP_NAME", "USER_ID", "SESSION_ID"}
          IN  /\ (\E k \in names : References(k, old) /\ DefiningLines(k, old) = {})
                    => ConstantsPrepended(old, new)
              /\ (\A k \in names : DefiningLines(k, old) # {})
                    => ~ConstantsPrepended(old, new)]_vars

(***************************************************************************)
(* Properties of the patcher: the run-as-script guard.                     *)
(***************************************************************************)
\* the tokens of a line that are not whitespace
Solid(line) == SelectSeq(line, LAMBDA t : ~IsSpace(t))

\* line is the guard spelt with the name n and one of the quoted words
IsGuardOf(line, n, quoted) ==
    /\ Len(Solid(line)) = 5
    /\ SubSeq(Solid(line), 1, 3) = << "if", n, "==" >>
    /\ Solid(line)[4] \in quoted /\ Solid(line)[5] = ":"

\* line is one of the three misspelt guards
IsTypoGuard(line) ==
    \/ IsGuardOf(line, "name", {"'main'", "\"main\""})
    \/ IsGuardOf(line, "__name__", {"'main'", "\"main\""})
    \/ IsGuardOf(line, "name", {"'__main__'", "\"__main__\""})

\* the statement after line i of lines is indented deeper than line i
HasBody(lines, i) ==
    \E j \in (i + 1)..Len(lines) :
        /\ ~IsBlank(lines[j]) /\ IndentOf(lines[j]) > IndentOf(lines[i])
        /\ \A k \in (i + 1)..(j - 1) : IsBlank(lines[k])

\* C13 as stated: after _patch_generated_code no misspelt guard remains, and
\* every guard 'if __name__ == "__main__":' of the patched text is followed by
\* a body, the guard whose only body line was a print the patcher removed
\* included.
C13_GuardsCanonicalWithBody ==
    (Passed("patch") /\ app = "gradio")
        => \A i \in 1..Len(SplitLines(code)) :
              /\ ~IsTypoGuard(SplitLines(code)[i])
              /\ Strip(SplitLines(code)[i])
                    = << "if", SP, "__name__", SP, "==", SP, "\"__main__\"", ":" >>
                 => HasBody(SplitLines(code), i)

(***************************************************************************)
(* Properties of the executor: errors.                                     *)
(***************************************************************************)
\* the executor has returned or raised for a request of the Gradio app
Executed == app = "gradio" /\ Passed("execute")

\* the excerpt marks the line ln of the text, and no other line
MarksOnly(excerpt, ln, text) ==
    /\ \E i \in 1..Len(excerpt) : excerpt[i].mark
    /\ \A i \in 1..Len(excerpt) :
          /\ excerpt[i].mark <=> excerpt[i].no = ln
          /\ excerpt[i].text = SplitLines(text)[excerpt[i].no]

\* C14 as stated: for every text with a compile-time syntax error, in either
\* mode, run_generated_adk raises a compile error with an excerpt of the
\* source in which exactly the failing line is marked, and no statement of
\* the generated code is executed.
C14_SyntaxErrorExcerpt ==
    (Executed /\ SyntaxErrorLine(code) > 0)
        => /\ outcome.raised /\ outcome.err.kind = "SyntaxError"
           /\ MarksOnly(outcome.err.excerpt, SyntaxErrorLine(code), code)
           /\ outcome.ran = 0

\* the text the generated program wrote to the standard output
Produced(r) == r.out \o r.console

\* C15 as stated: for every exception raised while the generated program
\* runs, in either mode, the executor raises a RuntimeError that wraps the
\* original exception and holds all the text the program had written to the
\* standard output before it failed.
C15_RuntimeErrorWrapsWithOutput ==
    (Executed /\ outcome.raised /\ SyntaxErrorLine(code) = 0)
        => /\ outcome.err.kind = "RuntimeError"
           /\ outcome.err.cause # ""
           /\ outcome.err.captured = Produced(outcome)

(***************************************************************************)
(* Properties of function-only mode.                                       *)
(***************************************************************************)
\* lines is a minimal valid program: import statements, the required ones
\* among them, the def of run_once, and the return of a string literal as its
\* whole body
IsMinimalProgram(lines) ==
    /\ Len(lines) >= 2
    /\ \A r \in required : Contains(r, Join(lines))
    /\ \A i \in 1..(Len(lines) - 2) : StmtKind(lines[i]) = "import"
    /\ IsRunOnceDef(lines[Len(lines) - 1])
    /\ IndentOf(lines[Len(lines)]) > IndentOf(lines[Len(lines) - 1])
    /\ Len(Strip(lines[Len(lines)])) = 3
    /\ SubSeq(Strip(lines[Len(lines)]), 1, 2) = << "return", SP >>
    /\ IsLiteral(Strip(lines[Len(lines)])[3])

\* the literal a minimal program returns
ReturnedLiteral(lines) == Strip(lines[Len(lines)])[3]

\* a request in function-only mode for a minimal program has ended
MinimalRequestEnded ==
    /\ app = "gradio" /\ function_only /\ pc \in {"done", "crashed"}
    /\ Passed("extract") /\ IsMinimalProgram(SplitLines(code))

\* C16: in function-only mode a minimal valid program whose run_once returns
\* a string literal at once gives, whatever the input text, a response
\* without error whose result is the text of that literal without its
\* leading and trailing whitespace.
C16_MinimalRoundTrip ==
    MinimalRequestEnded
        => /\ pc = "done" /\ response.given /\ ~response.error
           /\ response.result = Strip(LitValue(ReturnedLiteral(SplitLines(code))))
           /\ response.code = code

\* C16's case: a literal with blanks around it, returned trimmed
C16_Witness ==
    /\ MinimalRequestEnded
    /\ ReturnedLiteral(SplitLines(code)) = "' ok '"
    /\ response.result = << "ok" >>
    /\ input_text = << "bye" >>

(***************************************************************************)
(* Properties of the credentials.                                          *)
(***************************************************************************)
\* the key the request's own arguments give litellm: the api_key argument,
\* trimmed; none when it is empty
OwnKey == Strip(request.api_key)

\* C17 as stated: the credential a generation call uses depends on that
\* call's arguments and the environment only: when a request of the Gradio
\* app reaches _llm_completion's loop, litellm.api_key is the key of that
\* request, and it is unset when the request came with an empty api_key,
\* whatever the earlier requests were.
C17_KeyOfThisRequestOnly ==
    (app = "gradio" /\ pc = "llm") => litellm_api_key = OwnKey

\* the request came without credentials: no key in its api_key argument
\* (GOOGLE_API_KEY for dynamic_agent.py) and no provider key in the environment
MissingCredentials ==
    request.no > 0 /\ pc # "idle" /\ Len(Strip(request.api_key)) = 0 /\ ~request.env_has_key

\* C18 as stated: on missing credentials generate_and_run and
\* dynamic_agent.py's __main__ fail before any generation attempt:
\* litellm.completion is never called in such a run.
C18_NoCompletionWithoutCredentials ==
    MissingCredentials
        => /\ hist = << >>
           /\ pc \in {"done", "crashed"}
           /\ err # NoErr

(***************************************************************************)
(* Properties of generate_and_run.                                         *)
(***************************************************************************)
\* a request of the Gradio app has ended: generate_and_run returned or raised
RequestEnded == app = "gradio" /\ request.no > 0 /\ pc \in {"done", "crashed"}

\* C19 as stated: generate_and_run never raises: every request ends with a
\* response of four parts whose error flag is set if and only if a stage
\* failed; on failure the result is empty, the detail is not, and the
\* generated source is returned exactly when generation and validation had
\* succeeded; on success the detail is empty.
C19_AlwaysAResponse ==
    RequestEnded
        => /\ pc = "done" /\ response.given
           /\ response.error <=> (err # NoErr)
           /\ response.error
                 => /\ response.result = << >>
                    /\ response.detail # NoErr
                    /\ response.code = IF Passed("validate") THEN code ELSE << >>
           /\ ~response.error => response.detail = NoErr

\* the stages of a request in whole-script mode, in their order
WholeScriptStages == << "generate", "extract", "validate", "patch", "execute" >>

\* C20 as stated: in whole-script and in function-only mode a request passes
\* through Generate (with extraction), Validate, Patch and Execute in this
\* order: no text reaches the executor without having been validated and
\* then patched.
C20_PatchedBeforeExecuted ==
    app = "gradio"
        => /\ IsPrefix(stages, WholeScriptStages)
           /\ (pc = "run" \/ Passed("execute")) => (Passed("validate") /\ Passed("patch"))

(***************************************************************************)
(* Properties of the generator's errors.                                   *)
(***************************************************************************)
\* the last litellm.completion call made ended with the provider error k
LastCallFailedWith(k) == hist # << >> /\ hist[Len(hist)] = k

\* the completion returned holds no code block the generator accepts
NoBlockReturned ==
    Extracted /\ Openers(IF app = "agent" THEN PythonTags ELSE {}) = {}

\* C21: the error a generator ends with is of the class litellm raised when
\* and only when the last completion call failed with it (Timeout for a
\* timeout, APIError for a provider error), and is the ValueError "No python
\* code block found" when and only when a completion came back without a
\* code block: the three failures reach the caller as three different
\* kinds, each as itself, and generate_and_run reports that error.
C21_FailureModesDistinct ==
    pc \in {"done", "crashed"}
        => /\ \A k \in ProviderErrors : (err.kind = k) <=> LastCallFailedWith(k)
           /\ IsNoCodeBlock(err) <=> NoBlockReturned
           /\ \A k \in ProviderErrors : ~IsNoCodeBlock(Err(k, << >>))
           /\ (app = "gradio" /\ (err.kind \in ProviderErrors \/ IsNoCodeBlock(err)))
                 => (response.error /\ response.detail = err)

\* C21's case: a timeout after a provider error, both retried to the last
\* attempt, ended the request
C21_Witness ==
    /\ pc = "done" /\ app = "gradio"
    /\ hist = << "APIError", "Timeout" >> /\ err.kind = "Timeout"
    /\ response.error

(***************************************************************************)
(* Properties of the patcher: patching a patched text.                     *)
(***************************************************************************)
\* the text in hand is what _patch_generated_code returned
IsPatched == app = "gradio" /\ Passed("patch")

\* every misspelt guard of the text s stands on one line
GuardTyposOnOneLine(s) ==
    \A i \in 1..Len(s) :
        \A e \in { GuardTypoAt(s, i, {"name", "__name__"},
                                {"'main'", "\"main\"", "'__main__'", "\"__main__\""}) } :
            \A k \in i..(e - 1) : s[k] \notin {NL, CRLF}

\* the text p ends with the default body under a guard
EndsWithDefaultBody(p) ==
    /\ IsSuffix(DefaultGuardBody, p)
    /\ GuardWithoutBody(SubSeq(p, 1, Len(p) - Len(DefaultGuardBody)))

\* print stripping removes the last line of the text p
StripsLastLine(p) ==
    Len(StripPrints(SplitLines(p), FALSE, 0)) < Len(SplitLines(p))

\* the line before the last line of p ends with the guard
GuardOnLineBeforeLast(p) ==
    /\ Len(SplitLines(p)) >= 2
    /\ IsSuffix(CanonicalGuard, RStrip(SplitLines(p)[Len(SplitLines(p)) - 1]))

\* patching the patched text p again: the cases in which the outcome is known
RepatchedAsExpected(p) ==
    /\ At(p, Len(p)) \notin {NL, CRLF} => patch_generated_code(p) = p
    /\ (EndsWithDefaultBody(p) /\ ~StripsLastLine(p))
          => p = patch_generated_code(p) \o << NL >>
    /\ (EndsWithDefaultBody(p) /\ StripsLastLine(p) /\ GuardOnLineBeforeLast(p))
          => patch_generated_code(p) = p

\* C29, as amended: for a text whose misspelt guards stand on one line each
\* when step 4 rewrites them, patching the patched text p again gives p when
\* p does not end with a line break; gives p less its final line break when
\* p ends with the default guard body and the second pass does not strip
\* that body's print line (a def after run_once comes before the guard); and
\* gives p when the second pass strips that line and appends it again to a
\* guard that stands on the line before it.
C29_PatchOfPatchedText ==
    [][(PatchStep /\ GuardTyposOnOneLine(
                         AddConstants(normalize_create_session(PatchPrints(code)))))
          => RepatchedAsExpected(code')]_vars

\* C29's case: the guard that ended the text got the default body, a plain
\* def closed the region of run_once before it, and patching again loses the
\* final line break
C29_Witness ==
    /\ IsPatched
    /\ code = Programs.bare_guard \o DefaultGuardBody
    /\ code = patch_generated_code(code) \o << NL >>

\* C29 as stated: patch(patch(s)) = patch(s) for every text s
C29_PatchIdempotent == IsPatched => patch_generated_code(code) = code

(***************************************************************************)
(* Properties of the patcher: the lines it leaves alone.                   *)
(***************************************************************************)
\* line k of lines stands in the body of run_once
InRunOnceBody(lines, k) ==
    /\ RunOnceAt(lines) > 0 /\ k > RunOnceAt(lines)
    /\ k < NextAtIndent(lines, RunOnceAt(lines) + 1, IndentOf(lines[RunOnceAt(lines)]))

\* line is a __main__ guard, canonical or misspelt
IsGuardLine(line) ==
    \E n \in {"name", "__name__"} :
        IsGuardOf(line, n, {"'main'", "\"main\"", "'__main__'", "\"__main__\""})

\* the lines the patcher may touch: a print in the body of run_once, a
\* create_session statement on its own, a guard
MayBePatched(lines, k) ==
    \/ IsPrintLine(lines[k]) /\ InRunOnceBody(lines, k)
    \/ k \in SessionStmts(lines)
    \/ IsGuardLine(lines[k])

\* the lines of a are lines of b, in the same order
RECURSIVE IsSubsequence(_, _)
IsSubsequence(a, b) ==
    IF Len(a) = 0 THEN TRUE
    ELSE IF Len(b) = 0 THEN FALSE
    ELSE IF a[1] = b[1] THEN IsSubsequence(Tail(a), Tail(b))
    ELSE IsSubsequence(a, Tail(b))

\* the lines of lines the patcher is to leave alone, in their order
OtherLines(lines) ==
    LET Pick(k) == IF MayBePatched(lines, k) THEN << >> ELSE << lines[k] >>
        Picked[k \in 0..Len(lines)] == IF k = 0 THEN << >> ELSE Picked[k - 1] \o Pick(k)
    IN  Picked[Len(lines)]

\* C25 as stated: _patch_generated_code returns a text for every input, and
\* every input line that is neither a print line inside run_once, nor a
\* create_session statement on its own, nor a guard line is a line of the
\* output, unchanged and in the same relative order.
C25_OtherLinesUnchanged ==
    [][PatchStep => IsSubsequence(OtherLines(SplitLines(code)), SplitLines(code'))]_vars

(***************************************************************************)
(* Properties of validation in function-only mode.                         *)
(***************************************************************************)
\* the text holds a print call as it is usually written: print, then "("
CallsPrint(text) ==
    \E i \in 1..Len(text) :
        text[i] = "print" /\ At(text, SkipSpace(text, i + 1)) = "("

\* the text holds a __main__ guard, however it is spaced
HasMainGuard(text) ==
    \E line \in LinesOf(text) : IsGuardOf(line, "__name__", {"'__main__'", "\"__main__\""})

\* the function-only generator has accepted or rejected the text in hand
FunctionOnlyDecided ==
    /\ app = "gradio" /\ function_only
    /\ Passed("extract") /\ pc \notin {"extract", "validate"}

\* C28 as stated: the function-only generator accepts a text only if it
\* holds the five required substrings, no __main__ guard, no reference to
\* INPUT_TEXT and no print call; it raises the validation error for any of
\* these; and no text it accepted produces standard output through print
\* when it is run.
C28_FunctionOnlyForbidsPrint ==
    FunctionOnlyDecided
        => /\ Passed("validate")
                 <=> /\ HasAll(required, code)
                     /\ ~HasMainGuard(code) /\ ~Contains(<< "INPUT_TEXT" >>, code)
                     /\ ~CallsPrint(code)
           /\ ~Passed("validate") => (err.kind = "ValueError" /\ pc = "done")
           /\ Passed("execute") => Produced(outcome) = << >>

(***************************************************************************)
(* Properties of the backoff of _llm_completion.                           *)
(***************************************************************************)
\* the attempts (0-based) of this request that failed and were not the last
FailedNotLast ==
    { i \in 0..(Len(hist) - 1) : hist[i + 1] # "ok" /\ i < max_retries - 1 }

\* C24: a backoff sleep occurs between consecutive attempts and only there:
\* after failed attempt i (0-based) that is not the last, _llm_completion
\* sleeps 0.75 * 2^i seconds before attempt i+1, each delay double the one
\* before; no sleep follows the final attempt or a successful attempt.
C24_BackoffBetweenAttempts ==
    app = "gradio"
        => /\ DOMAIN sleeps = { i + 1 : i \in FailedNotLast }
           /\ \A i \in FailedNotLast : sleeps[i + 1] = 75 * (2 ^ i)
           /\ \A k \in 2..Len(sleeps) : sleeps[k] = 2 * sleeps[k - 1]
           /\ attempt = Len(sleeps)

\* two failures, two sleeps of 0.75 s and 1.5 s, then the last attempt fails
\* and nothing is slept
C24_Witness ==
    /\ app = "gradio" /\ max_retries = 3
    /\ hist = << "Timeout", "Timeout", "APIError" >>
    /\ sleeps = << 75, 150 >> /\ pc = "done"

(***************************************************************************)
(* Properties of the result in function-only mode.                         *)
(***************************************************************************)
\* run_generated_adk has been called in function-only mode
FunctionOnlyExecuted == app = "gradio" /\ function_only /\ Passed("execute")

\* a statement of the module defines run_once as a coroutine function
DefinesRunOnce(lines) ==
    \E i \in 1..Len(lines) :
        ~IsBlank(lines[i]) /\ IndentOf(lines[i]) = 0 /\ IsRunOnceDef(lines[i])

\* the last line returns a string literal from inside a function
EndsReturningLiteral(lines) ==
    /\ IndentOf(lines[Len(lines)]) > 0
    /\ Len(Strip(lines[Len(lines)])) = 3
    /\ SubSeq(Strip(lines[Len(lines)]), 1, 2) = << "return", SP >>
    /\ IsLiteral(Strip(lines[Len(lines)])[3])

\* C23: in function-only mode the result of run_generated_adk is the awaited
\* return value of run_once(input_text), trimmed, and never the captured
\* buffer: what the snippet printed while it was imported is discarded, and
\* a snippet that defines no callable run_once gives an execution error
\* instead of a result.
C23_ResultIsReturnValue ==
    FunctionOnlyExecuted
        => /\ ~outcome.raised
                => /\ DefinesRunOnce(SplitLines(code))
                   /\ EndsReturningLiteral(SplitLines(code))
                        => outcome.result
                             = Strip(LitValue(ReturnedLiteral(SplitLines(code))))
                   /\ response.result = outcome.result /\ ~response.error
                   /\ outcome.out # << >> => outcome.result # Strip(outcome.out)
           /\ outcome.raised => outcome.err.captured = << >>
           /\ (SyntaxErrorLine(code) = 0 /\ ~DefinesRunOnce(SplitLines(code)))
                => /\ outcome.raised /\ outcome.err.kind = "RuntimeError"
                   /\ outcome.err.arg = << "Execution error in function-only mode" >>
                   /\ response.error /\ response.result = << >>

\* C23's case: the snippet printed "late" while imported; the result is "ok",
\* what run_once returned
C23_Witness ==
    /\ FunctionOnlyExecuted /\ code = Programs.noisy_snippet
    /\ outcome.out = << "late", NL >>
    /\ response.result = << "ok" >> /\ ~response.error

\* C23's other case: run_once is not defined, and the response is an error
C23_WitnessNoRunOnce ==
    /\ FunctionOnlyExecuted /\ code = Programs.commented_snippet
    /\ outcome.ran > 0 /\ response.error

(***************************************************************************)
(* Properties of the redirection of standard output.                       *)
(***************************************************************************)
\* call c returned a result that holds what the program of another call printed
ForeignTextIn(c) ==
    /\ invocations[c].pc = "returned" /\ ~invocations[c].raised
    /\ \E d \in 1..MaxCalls \ {c} :
           invocations[d].wrote # << >> /\ Contains(Strip(TextOf(d)), invocations[c].result)

\* every call made has returned or raised, and sys.stdout is the buffer of one
StdoutLeftRedirected ==
    /\ Active = {} /\ \E c \in 1..MaxCalls : invocations[c].pc = "returned"
    /\ sys_stdout # 0

\* no call made so far ran while another was running
NoneOverlapped == \A c \in 1..MaxCalls : ~invocations[c].overlapped

\* C22: calls of run_generated_adk that overlap are not safe, the
\* redirection of standard output being global to the process: a call's
\* result can hold text the program of the other printed, and sys.stdout can
\* be left naming a call's buffer after both returned (C22_Witness); when no
\* two calls overlap, neither happens.
C22_SafeOnlyWithoutOverlap ==
    NoneOverlapped
        => /\ \A c \in 1..MaxCalls : ~ForeignTextIn(c)
           /\ ~StdoutLeftRedirected

\* C22's interleaving: call 1 enters, call 2 enters, the program of call 1
\* prints into the buffer of call 2, call 1 leaves, call 2 leaves and sets
\* sys.stdout to the buffer of call 1; both return
C22_Witness ==
    /\ ForeignTextIn(2) /\ StdoutLeftRedirected
    /\ sys_stdout = 1 /\ invocations[2].result = << "hi" >>

\* C30, for runs that do not overlap: in whole-script mode the result of a
\* successful run is exactly the text the program wrote to standard output
\* while it ran, without its leading and trailing whitespace; and after a
\* run that overlapped no other, successful or failed, sys.stdout is the
\* stream it was before the call.
C30_ResultIsOutputOfLoneRun ==
    /\ [](\A c \in 1..MaxCalls :
            (invocations[c].pc = "returned" /\ ~invocations[c].raised
                /\ ~invocations[c].overlapped)
                => invocations[c].result = Strip(invocations[c].wrote))
    /\ [][\A c \in 1..MaxCalls :
            (invocations[c].pc = "exec" /\ invocations'[c].pc \in {"left", "returned"}
                /\ ~invocations[c].overlapped)
                => sys_stdout' = invocations[c].old_target]_vars

\* C30's case: a lone run printed " hi", returned "hi" and left sys.stdout the
\* stream of the process
C30_Witness ==
    /\ invocations[1].pc = "returned" /\ ~invocations[1].overlapped
    /\ invocations[1].wrote = << SP, "hi", NL >> /\ invocations[1].result = << "hi" >>
    /\ sys_stdout = 0 /\ invocations[2].pc = "idle"

\* C30 as stated: the result of every successful run is the text its program
\* wrote, trimmed; sys.stdout is restored after a run that overlapped no other.
C30_ResultIsOutput ==
    /\ [](\A c \in 1..MaxCalls :
            (invocations[c].pc = "returned" /\ ~invocations[c].raised)
                => invocations[c].result = Strip(invocations[c].wrote))
    /\ [][\A c \in 1..MaxCalls :
            (invocations[c].pc = "exec" /\ invocations'[c].pc \in {"left", "returned"}
                /\ ~invocations[c].overlapped)
                => sys_stdout' = invocations[c].old_target]_vars

(***************************************************************************)
(* Properties of the chat UI.                                              *)
(***************************************************************************)
\* chat_fn was called with no session active: with the dict gr.State starts
\* with, which is also the dict reset_chat returns
CalledWithoutSession == reply.called /\ reply.with = NoSession

\* C26 as stated: whenever no session is active (the initial state
\* {"runner": None}, or the state reset_chat produced), chat_fn yields only
\* the warning "Please click 'Start Session' first." and never dereferences
\* the runner, the user id or the session id.
C26_WarnsWithoutSession ==
    CalledWithoutSession
        => /\ reply.yields = << << "Please click 'Start Session' first." >> >>
           /\ reply.raised = ""
           /\ reply.read = {}

(***************************************************************************)
(* Properties of render_scenes_with_reference.                             *)
(***************************************************************************)
\* the entry has a file name and an image prompt
IsFull(s) == s.file_name # "" /\ s.image_prompt # ""

\* lacking entries are skipped: none is saved, and none is where a call failed
LackingSkipped(scenes, saved, failed_at) ==
    /\ \A i \in 1..Len(saved) : IsFull(scenes[saved[i]])
    /\ failed_at > 0 => IsFull(scenes[failed_at])

\* a success return: files and paths of equal length, one of each for every
\* entry saved and for no other, in the order of scenes_json
SavedReported ==
    /\ rendered.keys = {"status", "files", "paths"}
    /\ Len(rendered.files) = Len(rendered.saved) /\ Len(rendered.paths) = Len(rendered.saved)
    /\ \A i \in 1..Len(rendered.saved) :
           /\ rendered.files[i] = rendered.scenes[rendered.saved[i]].file_name
           /\ rendered.paths[i] = << "/abs", "/", "out_dir", "/", rendered.files[i] >>
           /\ disk[rendered.files[i]] \in { rendered.saved[j] : j \in i..Len(rendered.saved) }
           /\ i > 1 => rendered.saved[i - 1] < rendered.saved[i]

\* an error return after a failure at entry k: neither files nor paths
NothingReported ==
    /\ rendered.keys = {"status", "detail"}
    /\ rendered.files = << >> /\ rendered.paths = << >>
    /\ \A i \in 1..Len(rendered.saved) : rendered.saved[i] < rendered.failed_at

\* a later entry, up to the one the call failed at, asks for the file of entry j
NameUsedAgain(j) ==
    \E i \in (j + 1)..rendered.failed_at :
        IsFull(rendered.scenes[i])
            /\ rendered.scenes[i].file_name = rendered.scenes[j].file_name

\* C27, for the images no later entry overwrote: render_scenes_with_reference
\* skips an entry lacking file_name or image_prompt instead of failing the
\* batch; on a success return files and paths have equal length, list only
\* the entries whose image was saved, in the order of scenes_json; on an
\* error return after a failure at entry k the file written for each earlier
\* entry is still on disk, holding the image of that entry unless a later
\* entry up to k has the same file name, and none is reported.
C27_SavedInOrderOrNotReported ==
    /\ job.running => LackingSkipped(job.scenes, job.saved, 0)
    /\ rendered.status \in {"success", "error"}
           => LackingSkipped(rendered.scenes, rendered.saved, rendered.failed_at)
    /\ rendered.status = "success" => SavedReported
    /\ (rendered.status = "error" /\ rendered.failed_at > 0)
           => /\ NothingReported
              /\ \A i \in 1..Len(rendered.saved) :
                     LET j == rendered.saved[i]
                     IN  /\ disk[rendered.scenes[j].file_name] # 0
                         /\ ~NameUsedAgain(j) => disk[rendered.scenes[j].file_name] = j

\* C27's case: the first entry lacks its file name and is skipped, the
\* second is saved, the model call of the third raises; the image of the
\* second is on disk and the return value names no file
C27_Witness ==
    /\ rendered.status = "error" /\ rendered.failed_at = 3
    /\ ~IsFull(rendered.scenes[1]) /\ rendered.saved = << 2 >>
    /\ disk[rendered.scenes[2].file_name] = 2
    /\ "files" \notin rendered.keys

\* C27's other case: a success that skipped an entry and saved two
C27_WitnessSuccess ==
    /\ rendered.status = "success" /\ rendered.saved = << 1, 3 >>
    /\ ~IsFull(rendered.scenes[2])
    /\ rendered.files = << "scene_02.png", "scene_01.png" >>

\* C27 as stated: as above, and on an error return after a failure at entry
\* k the images written for the entries before k remain on disk.
C27_SavedRemainOnDisk ==
    /\ rendered.status \in {"success", "error"}
           => LackingSkipped(rendered.scenes, rendered.saved, rendered.failed_at)
    /\ rendered.status = "success" => SavedReported
    /\ (rendered.status = "error" /\ rendered.failed_at > 0)
           => /\ NothingReported
              /\ \A i \in 1..Len(rendered.saved) :
                     disk[rendered.scenes[rendered.saved[i]].file_name] = rendered.saved[i]

====
